---- MODULE Spec2Model ----
(***************************************************************************)
(* TIDAL Playlist Monitor: the persistence store (config/database.py), the *)
(* reconciler (core/monitor.py), the download orchestrator                 *)
(* (core/downloader.py), the scheduler (core/scheduler.py) and the service *)
(* (service.py), modelled at the granularity of single store operations,   *)
(* external calls and scheduler events.                                    *)
(***************************************************************************)
EXTENDS Integers, Sequences, FiniteSets, TLC

VARIABLES
    playlists,    \* table playlists: its rows (playlist_id is the primary key)
    tracks,       \* table tracks: its rows
    downloads,    \* table downloads: rows in id order (index = autoincrement id)
    clock,        \* datetime.now(), as a logical clock
    max_retries,  \* TidalDownloader.max_retries (configuration)
    pc,           \* position of the calling thread
    cp,           \* locals of check_playlist
    dt,           \* locals of download_track
    peer,         \* locals of a download_track executing at the same time in another thread
    db,           \* locals of download_batch
    rf,           \* locals of retry_failed_downloads
    log,          \* executor invocations and sleeps of the top-level operation in progress
    ret,          \* what the operation that has just returned gave back
    last_ok,      \* the last successful check_playlist (playlist, snapshot), NoCheck once the
                  \* store was written after it
    scheduler,    \* PlaylistScheduler.scheduler (BackgroundScheduler): state, job store, pending jobs
    runs,         \* the executions of the check callback: by whom, and how far
    service,      \* TidalPlaylistService: its main thread and the stop in progress
    tick,         \* the wall clock of the scheduler, in ticks
    run           \* locals of check_and_download and check_all_playlists

vars == <<playlists, tracks, downloads, clock, max_retries, peer, pc, cp, dt, db, rf, log, ret, last_ok,
          scheduler, runs, service, tick, run>>

\* the state of the scheduler and of the service around it
serviceVars == <<scheduler, runs, service, tick, run>>

\* the state of the store, the reconciler and the downloader
workerVars == <<playlists, tracks, downloads, clock, max_retries, peer, pc, cp, dt, db, rf, log, ret, last_ok>>

----------------------------------------------------------------------------
(* Bounds of the model *)

MaxSnapLen == 2       \* items of one fetched playlist
MaxClock == 2         \* last_checked writes
MaxDownloads == 3     \* rows of the downloads table
MaxRetryRows == 4     \* rows of the downloads table once a retry pass has added its own
MaxBatch == 2         \* tracks handed to one download_batch call
MaxRetriesCfg == 1    \* largest configured max_retries explored

MaxStoreRows == 2     \* rows of the downloads table when its operations are called directly
MaxRetryCount == 1    \* retry_count reached by direct increment_retry_count calls

\* Program constants
MaxErrorLen == 500            \* error_msg[:500]
UnknownErrorLen == 13         \* len("Unknown error")
TimeoutMsgLen == 29           \* len(f"Download timed out after {self.timeout}s"), timeout = 600
delay_between_downloads == 5  \* DownloadConfig.delay_between_downloads
retry_delay == 60             \* DownloadConfig.retry_delay

PlaylistIds == {"p1", "p2"}
TrackIds == {"t1", "t2"}

NULL == "NULL"

\* a TIMESTAMP column: NoTime for NULL, At(n) for the clock's value n
NoTime == <<>>
At(n) == <<n>>

\* a TEXT column or a captured output: NoText for NULL / None, else Text(source, length)
NoText == <<>>
Text(source, length) == <<source, length>>

\* last_ok when no successful check stands
NoCheck == [playlist_id |-> NULL, snapshot |-> <<>>]

----------------------------------------------------------------------------
(* Values *)

\* models/download.py: DownloadStatus
PENDING == "pending"
DOWNLOADING == "downloading"
COMPLETED == "completed"
FAILED == "failed"
RETRYING == "retrying"
DownloadStatus == {PENDING, DOWNLOADING, COMPLETED, FAILED, RETRYING}

\* models/track.py: Track, as get_playlist_tracks builds it from a tidalapi.Track
Track(t, ti) == [track_id |-> t, title |-> ti]

\* What playlist.tracks() yields: tidalapi.Track items and items that are not tracks
VIDEO == [video |-> TRUE]
RemoteItems == {Track(t, "a") : t \in TrackIds} \cup {VIDEO}

SeqsUpTo(S, n) == UNION {[1..k -> S] : k \in 0..n}

RemoteLists == SeqsUpTo(RemoteItems, MaxSnapLen)

Range(s) == {s[i] : i \in DOMAIN s}

----------------------------------------------------------------------------
(* Persistence store: config/database.py *)

\* get_playlist_track_ids
get_playlist_track_ids(tbl, playlist_id) ==
    {r.track_id : r \in {x \in tbl : x.playlist_id = playlist_id}}

\* INSERT OR REPLACE INTO tracks: the row of that key is replaced by the new one
InsertOrReplaceTrack(tbl, playlist_id, track) ==
    {r \in tbl : ~(r.playlist_id = playlist_id /\ r.track_id = track.track_id)}
        \cup {[playlist_id |-> playlist_id, track_id |-> track.track_id, title |-> track.title]}

\* INSERT INTO tracks on a table without UNIQUE(playlist_id, track_id)
InsertTrackUnconstrained(tbl, playlist_id, track) ==
    tbl \cup {[playlist_id |-> playlist_id, track_id |-> track.track_id, title |-> track.title]}

\* INSERT OR IGNORE INTO tracks: the row is skipped when UNIQUE(playlist_id, track_id) is hit
InsertOrIgnoreTrack(tbl, playlist_id, track) ==
    IF \E r \in tbl : r.playlist_id = playlist_id /\ r.track_id = track.track_id
    THEN tbl
    ELSE tbl \cup {[playlist_id |-> playlist_id, track_id |-> track.track_id, title |-> track.title]}

\* update_playlist_tracks, the loop over the list
RECURSIVE InsertAllTracks(_, _, _)
InsertAllTracks(tbl, playlist_id, list) ==
    IF list = <<>> THEN tbl
    ELSE InsertAllTracks(InsertOrIgnoreTrack(tbl, playlist_id, Head(list)), playlist_id, Tail(list))

\* update_playlist_tracks: UPDATE playlists SET track_count = ? WHERE playlist_id = ?
SetTrackCount(tbl, playlist_id, n) ==
    {IF r.playlist_id = playlist_id THEN [r EXCEPT !.track_count = n] ELSE r : r \in tbl}

\* update_playlist_last_checked
update_playlist_last_checked(tbl, playlist_id, timestamp) ==
    {IF r.playlist_id = playlist_id THEN [r EXCEPT !.last_checked = timestamp] ELSE r : r \in tbl}

\* add_playlist: INSERT OR REPLACE deletes the row of that key and inserts a new one;
\* last_checked is not among the inserted columns and so is NULL in the new row
add_playlist(tbl, playlist_id, track_count, enabled) ==
    {r \in tbl : r.playlist_id # playlist_id} \cup
    {[playlist_id |-> playlist_id, last_checked |-> NoTime, track_count |-> track_count,
      enabled |-> enabled]}

\* get_playlist(playlist_id).last_checked; NoTime also when there is no such row
LastChecked(tbl, playlist_id) ==
    IF \E r \in tbl : r.playlist_id = playlist_id
    THEN (CHOOSE r \in tbl : r.playlist_id = playlist_id).last_checked
    ELSE NoTime

----------------------------------------------------------------------------
(* Reconciler: core/monitor.py *)

\* get_playlist_tracks: keeps the items that are tidalapi.Track, in order
get_playlist_tracks(items) == SelectSeq(items, LAMBDA x : x # VIDEO)

\* detect_new_tracks without the subtraction of the stored ids
detect_new_tracksIgnoresStored(stored_track_ids, current_tracks) ==
    LET current_track_ids == {current_tracks[i].track_id : i \in DOMAIN current_tracks}
    IN  SelectSeq(current_tracks, LAMBDA track : track.track_id \in current_track_ids)

\* detect_new_tracks, given what get_playlist_track_ids returned
detect_new_tracks(stored_track_ids, current_tracks) ==
    LET current_track_ids == {current_tracks[i].track_id : i \in DOMAIN current_tracks}
        new_track_ids == current_track_ids \ stored_track_ids
    IN  SelectSeq(current_tracks, LAMBDA track : track.track_id \in new_track_ids)

----------------------------------------------------------------------------
\* the configuration file: absent
NoFile == [exists |-> FALSE]

\* Settings(): the defaults of DownloadConfig and SchedulerConfig
DefaultSettings ==
    [audio_quality |-> "HI_RES", max_retries |-> 3, retry_delay |-> retry_delay,
     delay_between_downloads |-> delay_between_downloads, check_interval_minutes |-> 30]

NoRet == [op |-> "none"]

\* the locals of a function that is not executing
NoCall == [active |-> FALSE]

\* check_and_download when it is not executing; n, crashes, last_clean and clean_after_crash
\* tell the history of the runs: how many were started, how many were cut by a crash of
\* the process, whether the last one ended without any failure, and whether one such run
\* has ended since the last crash
NoRun ==
    [active |-> FALSE, stage |-> "idle", todo |-> <<>>, enabled |-> {}, results |-> <<>>,
     outcomes |-> <<>>, all_new_tracks |-> <<>>, store_error |-> FALSE, failed |-> FALSE,
     n |-> 0, crashes |-> 0, last_clean |-> FALSE, clean_after_crash |-> FALSE]

Init ==
    /\ playlists = {}
    /\ tracks = {}
    /\ downloads = <<>>
    /\ clock = 0
    /\ max_retries \in 0..MaxRetriesCfg
    /\ pc = "idle"
    /\ cp = NoCall
    /\ dt = NoCall
    /\ peer = NoCall
    /\ db = NoCall
    /\ rf = NoCall
    /\ log = <<>>
    /\ ret = NoRet
    /\ last_ok = NoCheck
    /\ scheduler = [state |-> "stopped", jobs |-> <<>>, pending |-> <<>>, use_cron |-> FALSE, starts |-> 0]
    /\ runs = [k \in {"initial", "playlist_check", "manual_check"} |-> "idle"]
    /\ service = [pc |-> "new", running |-> TRUE, last_call |-> "none", processed |-> "none", stop |-> NoCall,
                  last_run |-> NoCall, failed_runs |-> 0, config |-> NoFile, settings |-> DefaultSettings]
    /\ tick = 0
    /\ run = NoRun

----------------------------------------------------------------------------
(* Store operations called directly (cli.py) *)

AddPlaylist(p, enabled) ==
    /\ pc = "idle"
    /\ playlists' = add_playlist(playlists, p, 0, enabled)
    /\ ret' = NoRet
    /\ log' = <<>>
    /\ last_ok' = NoCheck
    /\ UNCHANGED <<tracks, downloads, clock, max_retries, peer, pc, cp, dt, db, rf>>
    /\ UNCHANGED serviceVars

----------------------------------------------------------------------------------------------------------------------------------------
(* check_playlist, monitor.py 143-182.  cp.known and cp.checked_before are  *)
(* the playlist's stored track ids and last_checked when the call was made, *)
(* cp.prev_ok the value of last_ok then.                                    *)

CheckPlaylistStart(p) ==
    /\ pc = "idle"
    /\ clock < MaxClock
    /\ pc' = "cp_get_playlist"
    /\ cp' = [playlist_id |-> p, current_tracks |-> <<>>, new_tracks |-> <<>>,
              known |-> get_playlist_track_ids(tracks, p),
              checked_before |-> LastChecked(playlists, p),
              prev_ok |-> last_ok]
    /\ ret' = NoRet
    /\ log' = <<>>
    /\ UNCHANGED <<playlists, tracks, downloads, clock, max_retries, peer, dt, db, rf, last_ok>>
    /\ UNCHANGED serviceVars

\* what the caller of check_playlist sees when it re-raises
CheckPlaylistRaises(why) ==
    [op |-> "check_playlist", playlist_id |-> cp.playlist_id, outcome |-> "raise", why |-> why,
     known |-> cp.known, checked_before |-> cp.checked_before]

\* get_playlist returns the playlist
CpGetPlaylist ==
    /\ pc = "cp_get_playlist"
    /\ pc' = "cp_get_tracks"
    /\ UNCHANGED <<playlists, tracks, downloads, clock, max_retries, peer, cp, dt, db, rf, log, ret, last_ok>>
    /\ UNCHANGED serviceVars

\* get_playlist raises (session.playlist raises, or returns nothing: ValueError)
CpGetPlaylistFails(why) ==
    /\ pc = "cp_get_playlist"
    /\ pc' = "idle"
    /\ ret' = CheckPlaylistRaises(why)
    /\ cp' = NoCall
    /\ UNCHANGED <<playlists, tracks, downloads, clock, max_retries, peer, dt, db, rf, log, last_ok>>
    /\ UNCHANGED serviceVars

\* get_playlist_tracks returns the whole list
CpGetTracks(items) ==
    /\ pc = "cp_get_tracks"
    /\ cp' = [cp EXCEPT !.current_tracks = get_playlist_tracks(items)]
    /\ pc' = "cp_detect"
    /\ UNCHANGED <<playlists, tracks, downloads, clock, max_retries, peer, dt, db, rf, log, ret, last_ok>>
    /\ UNCHANGED serviceVars

\* a failing track fetch that marks the playlist checked all the same
CpGetTracksFailsMarksChecked ==
    /\ pc = "cp_get_tracks"
    /\ pc' = "idle"
    /\ clock' = clock + 1
    /\ playlists' = update_playlist_last_checked(playlists, cp.playlist_id, At(clock'))
    /\ ret' = CheckPlaylistRaises("FetchError")
    /\ cp' = NoCall
    /\ UNCHANGED <<tracks, downloads, max_retries, peer, dt, db, rf, log, last_ok>>
    /\ UNCHANGED serviceVars

\* playlist.tracks() raises while get_playlist_tracks iterates: the partial list is dropped
CpGetTracksFails ==
    /\ pc = "cp_get_tracks"
    /\ pc' = "idle"
    /\ ret' = CheckPlaylistRaises("FetchError")
    /\ cp' = NoCall
    /\ UNCHANGED <<playlists, tracks, downloads, clock, max_retries, peer, dt, db, rf, log, last_ok>>
    /\ UNCHANGED serviceVars

\* detect_new_tracks(playlist_id, current_tracks)
CpDetect ==
    /\ pc = "cp_detect"
    /\ cp' = [cp EXCEPT !.new_tracks =
                detect_new_tracks(get_playlist_track_ids(tracks, cp.playlist_id), cp.current_tracks)]
    /\ pc' = "cp_update_tracks"
    /\ UNCHANGED <<playlists, tracks, downloads, clock, max_retries, peer, dt, db, rf, log, ret, last_ok>>
    /\ UNCHANGED serviceVars

\* update_playlist_tracks: the tracks table after its transaction
\* update_playlist_tracks without "track.playlist_id = playlist_id": rows keep Track's default ""
update_playlist_tracksNoPlaylistId(tbl, playlist_id, list) == InsertAllTracks(tbl, "", list)

\* update_playlist_tracks that replaces the playlist's rows by the snapshot
update_playlist_tracksReplaces(tbl, playlist_id, list) ==
    InsertAllTracks({r \in tbl : r.playlist_id # playlist_id}, playlist_id, list)


update_playlist_tracks(tbl, playlist_id, list) == InsertAllTracks(tbl, playlist_id, list)

CpUpdateTracks ==
    /\ pc = "cp_update_tracks"
    /\ tracks' = update_playlist_tracks(tracks, cp.playlist_id, cp.current_tracks)
    /\ playlists' = SetTrackCount(playlists, cp.playlist_id, Len(cp.current_tracks))
    /\ pc' = "cp_update_last_checked"
    /\ last_ok' = NoCheck
    /\ UNCHANGED <<downloads, clock, max_retries, peer, cp, dt, db, rf, log, ret>>
    /\ UNCHANGED serviceVars

\* the transaction of update_playlist_tracks fails and is rolled back; check_playlist re-raises
CpUpdateTracksFails ==
    /\ pc = "cp_update_tracks"
    /\ pc' = "idle"
    /\ ret' = CheckPlaylistRaises("StoreError")
    /\ cp' = NoCall
    /\ UNCHANGED <<playlists, tracks, downloads, clock, max_retries, peer, dt, db, rf, log, last_ok>>
    /\ UNCHANGED serviceVars

\* update_playlist_last_checked(playlist_id, datetime.now()), then return new_tracks
CpUpdateLastChecked ==
    /\ pc = "cp_update_last_checked"
    /\ clock' = clock + 1
    /\ playlists' = update_playlist_last_checked(playlists, cp.playlist_id, At(clock'))
    /\ pc' = "idle"
    /\ ret' = [op |-> "check_playlist", playlist_id |-> cp.playlist_id, outcome |-> "ok",
               value |-> cp.new_tracks, snapshot |-> cp.current_tracks,
               known |-> cp.known, checked_before |-> cp.checked_before, prev_ok |-> cp.prev_ok]
    /\ last_ok' = [playlist_id |-> cp.playlist_id, snapshot |-> cp.current_tracks]
    /\ cp' = NoCall
    /\ UNCHANGED <<tracks, downloads, max_retries, peer, dt, db, rf, log>>
    /\ UNCHANGED serviceVars

\* update_playlist_last_checked fails after the tracks were committed; check_playlist re-raises
CpUpdateLastCheckedFails ==
    /\ pc = "cp_update_last_checked"
    /\ pc' = "idle"
    /\ ret' = CheckPlaylistRaises("StoreError")
    /\ cp' = NoCall
    /\ UNCHANGED <<playlists, tracks, downloads, clock, max_retries, peer, dt, db, rf, log, last_ok>>
    /\ UNCHANGED serviceVars

FetchErrors == {"NotFound", "FetchError"}

NextMonitor ==
    \/ \E p \in PlaylistIds : AddPlaylist(p, TRUE)
    \/ \E p \in PlaylistIds : CheckPlaylistStart(p)
    \/ CpGetPlaylist
    \/ \E why \in FetchErrors : CpGetPlaylistFails(why)
    \/ \E items \in RemoteLists : CpGetTracks(items)
    \/ CpGetTracksFails
    \/ CpDetect
    \/ CpUpdateTracks
    \/ CpUpdateTracksFails
    \/ CpUpdateLastChecked
    \/ CpUpdateLastCheckedFails

SpecMonitor == Init /\ [][NextMonitor]_vars

----------------------------------------------------------------------------
(* Claims about check_playlist *)

IdsOf(list) == {list[i].track_id : i \in DOMAIN list}

\* the tracks of a snapshot whose id is not among the known ids, walked in snapshot order
RECURSIVE NotKnownInOrder(_, _)
NotKnownInOrder(S, K) ==
    IF S = <<>> THEN <<>>
    ELSE IF Head(S).track_id \in K THEN NotKnownInOrder(Tail(S), K)
         ELSE <<Head(S)>> \o NotKnownInOrder(Tail(S), K)

CheckReturned == ret.op = "check_playlist" /\ ret.outcome = "ok"
CheckRaised == ret.op = "check_playlist" /\ ret.outcome = "raise"

\* C2: a successful check_playlist(P) with stored ids K and snapshot S returns exactly the
\* tracks of S whose id is not in K, in the order of S.
C2_ReturnsSnapshotMinusKnown ==
    CheckReturned => ret.value = NotKnownInOrder(ret.snapshot, ret.known)

\* a check that returned some but not all tracks of a two-track snapshot, some ids being known
C2_Witness ==
    /\ CheckReturned
    /\ ret.known # {}
    /\ Len(ret.snapshot) = 2
    /\ Len(ret.value) = 1

\* C3: a successful check_playlist(P) with snapshot S that follows a successful
\* check_playlist(P) with the same S, no store write in between, returns the empty list.
C3_IdempotentOnUnchangedSnapshot ==
    (CheckReturned /\ ret.prev_ok = [playlist_id |-> ret.playlist_id, snapshot |-> ret.snapshot])
        => ret.value = <<>>

\* the second of two successive successful checks of one playlist with the same non-empty snapshot
C3_Witness ==
    /\ CheckReturned
    /\ ret.prev_ok = [playlist_id |-> ret.playlist_id, snapshot |-> ret.snapshot]
    /\ Len(ret.snapshot) = 2

\* C4: no step of a check removes a stored track id of any playlist, and when a check of P
\* returns successfully with snapshot S every id of S is stored for P.
C4_KnownSetOnlyGrows ==
    [][/\ \A p \in PlaylistIds :
            get_playlist_track_ids(tracks, p) \subseteq get_playlist_track_ids(tracks', p)
       /\ (ret'.op = "check_playlist" /\ ret'.outcome = "ok")
            => IdsOf(ret'.snapshot) \subseteq get_playlist_track_ids(tracks', ret'.playlist_id)]_vars

\* a successful check whose snapshot no longer holds an id stored before: the id is still stored
C4_Witness ==
    /\ CheckReturned
    /\ \E t \in ret.known : t \notin IdsOf(ret.snapshot)
    /\ ret.value # <<>>
    /\ ret.known \subseteq get_playlist_track_ids(tracks, ret.playlist_id)

\* C5: when get_playlist or get_playlist_tracks raises, check_playlist raises and the
\* playlist's last_checked and stored track ids are what they were at the call.
C5_FetchFailureLeavesStateUnchanged ==
    (CheckRaised /\ ret.why \in FetchErrors)
        => /\ LastChecked(playlists, ret.playlist_id) = ret.checked_before
           /\ get_playlist_track_ids(tracks, ret.playlist_id) = ret.known

\* the track fetch of a playlist that was checked before, and has stored tracks, has failed
C5_Witness ==
    /\ CheckRaised
    /\ ret.why = "FetchError"
    /\ ret.checked_before # NoTime
    /\ ret.known # {}

----------------------------------------------------------------------------
(* Download records of the store: config/database.py 341-437 *)

\* create_download: a new row, status pending, retry_count 0 (column default)
create_download(tbl, track_id) ==
    Append(tbl, [track_id |-> track_id, status |-> PENDING, retry_count |-> 0,
                 completed_at |-> NoTime, error_message |-> NoText])

\* update_download_status without "AND status != 'completed'"
update_download_statusUnguarded(tbl, track_id, status, error_msg, now) ==
    [i \in DOMAIN tbl |->
        IF tbl[i].track_id = track_id
        THEN [tbl[i] EXCEPT !.status = status, !.error_message = error_msg,
                            !.completed_at = IF status = COMPLETED THEN At(now) ELSE NoTime]
        ELSE tbl[i]]

\* update_download_status with completed_at = datetime.now() whatever the status
update_download_statusStampsAlways(tbl, track_id, status, error_msg, now) ==
    [i \in DOMAIN tbl |->
        IF tbl[i].track_id = track_id /\ tbl[i].status # COMPLETED
        THEN [tbl[i] EXCEPT !.status = status, !.error_message = error_msg, !.completed_at = At(now)]
        ELSE tbl[i]]

\* update_download_status: UPDATE downloads SET status, error_message, completed_at
\* WHERE track_id = ? AND status != 'completed'
update_download_status(tbl, track_id, status, error_msg, now) ==
    [i \in DOMAIN tbl |->
        IF tbl[i].track_id = track_id /\ tbl[i].status # COMPLETED
        THEN [tbl[i] EXCEPT !.status = status, !.error_message = error_msg,
                            !.completed_at = IF status = COMPLETED THEN At(now) ELSE NoTime]
        ELSE tbl[i]]

\* increment_retry_count: UPDATE downloads SET retry_count = retry_count + 1 WHERE track_id = ?
increment_retry_count(tbl, track_id) ==
    [i \in DOMAIN tbl |->
        IF tbl[i].track_id = track_id
        THEN [tbl[i] EXCEPT !.retry_count = @ + 1]
        ELSE tbl[i]]

\* what increment_retry_count returns: SELECT retry_count FROM downloads WHERE track_id = ?
\* and fetchone(); the query has no ORDER BY and SQLite yields the rows in id order, so
\* this is the count of the oldest row of the track, 0 when it has none
new_retry_count(tbl, track_id) ==
    LET rows == {i \in DOMAIN tbl : tbl[i].track_id = track_id}
    IN  IF rows = {} THEN 0
        ELSE tbl[CHOOSE i \in rows : \A j \in rows : i <= j].retry_count

\* get_failed_downloads: the failed rows, most recently started first (started_at is the
\* time of the row's insertion, so the order is that of descending id)
RECURSIVE FailedFrom(_, _)
FailedFrom(tbl, i) ==
    IF i = 0 THEN <<>>
    ELSE (IF tbl[i].status = FAILED
          THEN <<[id |-> i, track_id |-> tbl[i].track_id, retry_count |-> tbl[i].retry_count]>>
          ELSE <<>>) \o FailedFrom(tbl, i - 1)

get_failed_downloads(tbl) == FailedFrom(tbl, Len(tbl))

\* get_track_by_id: the rows SELECT ... WHERE track_id = ? LIMIT 1 may return
get_track_by_id(tbl, track_id) == {r \in tbl : r.track_id = track_id}

----------------------------------------------------------------------------
(* The executor, as run_tidal_command shows it to download_track *)

Min(a, b) == IF a < b THEN a ELSE b

\* the whole text, whatever its length
Untruncated(text, n) == text

\* error_msg[:n]
Truncate(text, n) == <<text[1], Min(text[2], n)>>

ExitOk == [kind |-> "exit", returncode |-> 0, stderr |-> Text("stderr", 0), stdout |-> Text("stdout", 0)]
ExitFailed(e, o) == [kind |-> "exit", returncode |-> 1, stderr |-> Text("stderr", e), stdout |-> Text("stdout", o)]
TimedOut == [kind |-> "timeout"]
Raised(n) == [kind |-> "error", message |-> Text("exception", n)]

ExecFailures ==
    {ExitFailed(15, 0), ExitFailed(MaxErrorLen + 1, 0), ExitFailed(0, 15), ExitFailed(0, 0),
     TimedOut, Raised(MaxErrorLen + 1)}

ExecOutcomes == {ExitOk} \cup ExecFailures

Succeeded(outcome) == outcome.kind = "exit" /\ outcome.returncode = 0

\* the error text download_track records for a failed run (downloader.py 215-237)
ErrorMessage(outcome) ==
    CASE outcome.kind = "exit" ->
            Truncate(IF outcome.stderr[2] > 0 THEN outcome.stderr
                     ELSE IF outcome.stdout[2] > 0 THEN outcome.stdout
                     ELSE Text("Unknown error", UnknownErrorLen),
                     MaxErrorLen)
      [] outcome.kind = "timeout" -> Text("Download timed out", TimeoutMsgLen)
      [] outcome.kind = "error" -> Truncate(outcome.message, MaxErrorLen)

ExecEvent(track_id, outcome) == [kind |-> "exec", track_id |-> track_id, ok |-> Succeeded(outcome)]
SleepEvent(seconds) == [kind |-> "sleep", seconds |-> seconds]

----------------------------------------------------------------------------
(* Store operations called directly *)

AddTrack(p, track) ==
    /\ pc = "idle"
    /\ tracks' = InsertOrIgnoreTrack(tracks, p, track)
    /\ ret' = NoRet
    /\ log' = <<>>
    /\ last_ok' = NoCheck
    /\ UNCHANGED <<playlists, downloads, clock, max_retries, peer, pc, cp, dt, db, rf>>
    /\ UNCHANGED serviceVars

CreateDownload(t) ==
    /\ pc = "idle"
    /\ Len(downloads) < MaxDownloads
    /\ downloads' = create_download(downloads, t)
    /\ ret' = [op |-> "create_download", track_id |-> t]
    /\ log' = <<>>
    /\ last_ok' = NoCheck
    /\ UNCHANGED <<playlists, tracks, clock, max_retries, peer, pc, cp, dt, db, rf>>
    /\ UNCHANGED serviceVars

UpdateDownloadStatus(t, status, error_msg) ==
    /\ pc = "idle"
    /\ downloads' = update_download_status(downloads, t, status, error_msg, clock)
    /\ ret' = [op |-> "update_download_status", track_id |-> t, status |-> status]
    /\ log' = <<>>
    /\ last_ok' = NoCheck
    /\ UNCHANGED <<playlists, tracks, clock, max_retries, peer, pc, cp, dt, db, rf>>
    /\ UNCHANGED serviceVars

IncrementRetryCount(t) ==
    /\ pc = "idle"
    /\ \A i \in DOMAIN downloads : downloads[i].retry_count < MaxRetryCount
    /\ downloads' = increment_retry_count(downloads, t)
    /\ ret' = [op |-> "increment_retry_count", track_id |-> t, value |-> new_retry_count(downloads', t)]
    /\ log' = <<>>
    /\ last_ok' = NoCheck
    /\ UNCHANGED <<playlists, tracks, clock, max_retries, peer, pc, cp, dt, db, rf>>
    /\ UNCHANGED serviceVars

----------------------------------------------------------------------------
(* download_track, downloader.py 184-238 *)

\* the call download_track(track) made by caller
CallDownloadTrack(track, caller) ==
    /\ pc' = "dt_create"
    /\ dt' = [active |-> TRUE, track |-> track, caller |-> caller, result |-> ExitOk, download_id |-> 0]

\* create_download(track.track_id); download_id is the id it returns (cursor.lastrowid),
\* which download_track does not keep
DtCreate ==
    /\ pc = "dt_create"
    /\ downloads' = create_download(downloads, dt.track.track_id)
    /\ dt' = [dt EXCEPT !.download_id = Len(downloads')]
    /\ pc' = "dt_mark"
    /\ UNCHANGED <<playlists, tracks, clock, max_retries, peer, cp, db, rf, log, ret, last_ok>>
    /\ UNCHANGED serviceVars

\* update_download_status(track.track_id, DOWNLOADING)
DtMark ==
    /\ pc = "dt_mark"
    /\ downloads' = update_download_status(downloads, dt.track.track_id, DOWNLOADING, NoText, clock)
    /\ pc' = "dt_run"
    /\ UNCHANGED <<playlists, tracks, clock, max_retries, peer, cp, dt, db, rf, log, ret, last_ok>>
    /\ UNCHANGED serviceVars

\* run_tidal_command(['dl', track.tidal_url]) returns, times out or raises
DtRun(outcome) ==
    /\ pc = "dt_run"
    /\ dt' = [dt EXCEPT !.result = outcome]
    /\ log' = Append(log, ExecEvent(dt.track.track_id, outcome))
    /\ pc' = "dt_record"
    /\ UNCHANGED <<playlists, tracks, downloads, clock, max_retries, peer, cp, db, rf, ret, last_ok>>
    /\ UNCHANGED serviceVars

\* line 270: the pause after the track at position i (from 1) of n
BatchSleepsAfterLast(i, n, delay) == i <= n /\ delay > 0

BatchSleeps(i, n, delay) == i < n /\ delay > 0

\* download_batch after download_track returned success for the track at db.i
BatchAfterTrack(success) ==
    LET results == IF success THEN [db.results EXCEPT !.success = @ + 1]
                   ELSE [db.results EXCEPT !.failed = @ + 1]
        n == Len(db.tracks)
    IN  IF BatchSleeps(db.i, n, db.delay)
        THEN /\ pc' = "db_sleep"
             /\ db' = [db EXCEPT !.results = results]
             /\ dt' = NoCall
             /\ UNCHANGED ret
        ELSE IF db.i < n
        THEN /\ db' = [db EXCEPT !.results = results, !.i = @ + 1]
             /\ CallDownloadTrack(db.tracks[db.i + 1], "batch")
             /\ UNCHANGED ret
        ELSE /\ pc' = "idle"
             /\ ret' = [op |-> "download_batch", tracks |-> db.tracks, value |-> results,
                        downloads_before |-> db.downloads_before]
             /\ db' = NoCall
             /\ dt' = NoCall

\* retry_failed_downloads after download_track returned for the row at rf.i
RetryAfterTrack(success) ==
    /\ rf' = [rf EXCEPT !.i = @ + 1,
                        !.stats = IF success THEN [@ EXCEPT !.success = @ + 1]
                                  ELSE [@ EXCEPT !.failed = @ + 1]]
    /\ pc' = "rf_loop"
    /\ dt' = NoCall
    /\ UNCHANGED ret

\* download_track returns success to its caller
DtReturn(success) ==
    CASE dt.caller = "direct" ->
            /\ pc' = "idle"
            /\ ret' = [op |-> "download_track", track_id |-> dt.track.track_id,
                       value |-> success, result |-> dt.result]
            /\ dt' = NoCall
            /\ UNCHANGED <<db, rf>>
      [] dt.caller = "batch" -> BatchAfterTrack(success) /\ UNCHANGED rf
      [] dt.caller = "retry" -> RetryAfterTrack(success) /\ UNCHANGED db

\* the status download_track records for the run's outcome, and its return
DtRecord ==
    /\ pc = "dt_record"
    /\ downloads' =
        IF Succeeded(dt.result)
        THEN update_download_status(downloads, dt.track.track_id, COMPLETED, NoText, clock)
        ELSE update_download_status(downloads, dt.track.track_id, FAILED, ErrorMessage(dt.result), clock)
    /\ DtReturn(Succeeded(dt.result))
    /\ UNCHANGED <<playlists, tracks, clock, max_retries, peer, cp, log, last_ok>>
    /\ UNCHANGED serviceVars

DownloadTrackStart(track) ==
    /\ pc = "idle"
    /\ Len(downloads) < MaxDownloads
    /\ CallDownloadTrack(track, "direct")
    /\ ret' = NoRet
    /\ log' = <<>>
    /\ last_ok' = NoCheck
    /\ UNCHANGED <<playlists, tracks, downloads, clock, max_retries, peer, cp, db, rf>>
    /\ UNCHANGED serviceVars

----------------------------------------------------------------------------
(* download_batch, downloader.py 240-279 *)

\* download_batch that pauses before its first look at the list
DownloadBatchStartPausesFirst(list) ==
    /\ pc = "idle"
    /\ Len(downloads) + Len(list) <= MaxDownloads
    /\ log' = <<SleepEvent(delay_between_downloads)>>
    /\ last_ok' = NoCheck
    /\ IF list = <<>>
       THEN /\ ret' = [op |-> "download_batch", tracks |-> list,
                       value |-> [success |-> 0, failed |-> 0], downloads_before |-> downloads]
            /\ UNCHANGED <<pc, dt, db>>
       ELSE /\ db' = [active |-> TRUE, tracks |-> list, delay |-> delay_between_downloads, i |-> 1,
                      results |-> [success |-> 0, failed |-> 0], downloads_before |-> downloads]
            /\ CallDownloadTrack(list[1], "batch")
            /\ ret' = NoRet
    /\ UNCHANGED <<playlists, tracks, downloads, clock, max_retries, peer, cp, rf>>
    /\ UNCHANGED serviceVars

\* download_batch(tracks) with no delay override: returns at once for an empty list,
\* else enters the loop with the first track
DownloadBatchStart(list) ==
    /\ pc = "idle"
    /\ Len(downloads) + Len(list) <= MaxDownloads
    /\ log' = <<>>
    /\ last_ok' = NoCheck
    /\ IF list = <<>>
       THEN /\ ret' = [op |-> "download_batch", tracks |-> list,
                       value |-> [success |-> 0, failed |-> 0], downloads_before |-> downloads]
            /\ UNCHANGED <<pc, dt, db>>
       ELSE /\ db' = [active |-> TRUE, tracks |-> list, delay |-> delay_between_downloads, i |-> 1,
                      results |-> [success |-> 0, failed |-> 0], downloads_before |-> downloads]
            /\ CallDownloadTrack(list[1], "batch")
            /\ ret' = NoRet
    /\ UNCHANGED <<playlists, tracks, downloads, clock, max_retries, peer, cp, rf>>
    /\ UNCHANGED serviceVars

\* time.sleep(delay), then the next iteration's download_track
DbSleep ==
    /\ pc = "db_sleep"
    /\ log' = Append(log, SleepEvent(db.delay))
    /\ IF db.i < Len(db.tracks)
       THEN /\ db' = [db EXCEPT !.i = @ + 1]
            /\ CallDownloadTrack(db.tracks[db.i + 1], "batch")
            /\ UNCHANGED ret
       ELSE /\ pc' = "idle"
            /\ ret' = [op |-> "download_batch", tracks |-> db.tracks, value |-> db.results,
                       downloads_before |-> db.downloads_before]
            /\ db' = NoCall
            /\ dt' = NoCall
    /\ UNCHANGED <<playlists, tracks, downloads, clock, max_retries, peer, cp, rf, last_ok>>
    /\ UNCHANGED serviceVars

----------------------------------------------------------------------------
(* retry_failed_downloads, downloader.py 281-334 *)

Eligible(failed, limit) == {i \in DOMAIN failed : failed[i].retry_count < limit}

RetryStart ==
    /\ pc = "idle"
    /\ LET failed_downloads == get_failed_downloads(downloads)
       IN  /\ Len(downloads) + Cardinality(Eligible(failed_downloads, max_retries)) <= MaxRetryRows
           /\ IF failed_downloads = <<>>
              THEN /\ ret' = [op |-> "retry_failed_downloads", failed_downloads |-> failed_downloads,
                              value |-> [retried |-> 0, success |-> 0, failed |-> 0]]
                   /\ UNCHANGED <<pc, rf>>
              ELSE /\ rf' = [active |-> TRUE, failed_downloads |-> failed_downloads, i |-> 1,
                             stats |-> [retried |-> 0, success |-> 0, failed |-> 0]]
                   /\ pc' = "rf_loop"
                   /\ ret' = NoRet
    /\ log' = <<>>
    /\ last_ok' = NoCheck
    /\ UNCHANGED <<playlists, tracks, downloads, clock, max_retries, peer, cp, dt, db>>
    /\ UNCHANGED serviceVars

\* the head of one iteration: past the list's end the pass returns; a row at the limit is skipped
RfLoop ==
    /\ pc = "rf_loop"
    /\ IF rf.i > Len(rf.failed_downloads)
       THEN /\ pc' = "idle"
            /\ ret' = [op |-> "retry_failed_downloads", failed_downloads |-> rf.failed_downloads,
                       value |-> rf.stats]
            /\ rf' = NoCall
       ELSE IF rf.failed_downloads[rf.i].retry_count >= max_retries
       THEN /\ rf' = [rf EXCEPT !.i = @ + 1]
            /\ UNCHANGED <<pc, ret>>
       ELSE /\ pc' = "rf_increment"
            /\ UNCHANGED <<rf, ret>>
    /\ UNCHANGED <<playlists, tracks, downloads, clock, max_retries, peer, cp, dt, db, log, last_ok>>
    /\ UNCHANGED serviceVars

\* increment_retry_count(download.track_id)
RfIncrement ==
    /\ pc = "rf_increment"
    /\ downloads' = increment_retry_count(downloads, rf.failed_downloads[rf.i].track_id)
    /\ pc' = "rf_mark"
    /\ UNCHANGED <<playlists, tracks, clock, max_retries, peer, cp, dt, db, rf, log, ret, last_ok>>
    /\ UNCHANGED serviceVars

\* update_download_status(download.track_id, RETRYING); stats['retried'] += 1
RfMark ==
    /\ pc = "rf_mark"
    /\ downloads' = update_download_status(downloads, rf.failed_downloads[rf.i].track_id,
                                           RETRYING, NoText, clock)
    /\ rf' = [rf EXCEPT !.stats.retried = @ + 1]
    /\ pc' = "rf_sleep"
    /\ UNCHANGED <<playlists, tracks, clock, max_retries, peer, cp, dt, db, log, ret, last_ok>>
    /\ UNCHANGED serviceVars

\* time.sleep(retry_delay) when retry_delay > 0
RfSleep ==
    /\ pc = "rf_sleep"
    /\ log' = IF retry_delay > 0 THEN Append(log, SleepEvent(retry_delay)) ELSE log
    /\ pc' = "rf_get_track"
    /\ UNCHANGED <<playlists, tracks, downloads, clock, max_retries, peer, cp, dt, db, rf, ret, last_ok>>
    /\ UNCHANGED serviceVars

\* get_track_by_id(download.track_id): no such track, the row is passed over; else download_track
RfGetTrack ==
    /\ pc = "rf_get_track"
    /\ LET found == get_track_by_id(tracks, rf.failed_downloads[rf.i].track_id)
       IN  IF found = {}
           THEN /\ rf' = [rf EXCEPT !.i = @ + 1]
                /\ pc' = "rf_loop"
                /\ UNCHANGED dt
           ELSE /\ \E r \in found : CallDownloadTrack(Track(r.track_id, r.title), "retry")
                /\ UNCHANGED rf
    /\ UNCHANGED <<playlists, tracks, downloads, clock, max_retries, peer, cp, db, log, ret, last_ok>>
    /\ UNCHANGED serviceVars

----------------------------------------------------------------------------
BatchLists == SeqsUpTo({Track(t, "a") : t \in TrackIds}, MaxBatch)

NextDownload ==
    \/ \E t \in TrackIds : AddTrack("p1", Track(t, "a"))
    \/ \E t \in TrackIds : DownloadTrackStart(Track(t, "a"))
    \/ DtCreate
    \/ DtMark
    \/ \E outcome \in ExecOutcomes : DtRun(outcome)
    \/ DtRecord
    \/ \E list \in BatchLists : DownloadBatchStart(list)
    \/ DbSleep
    \/ RetryStart
    \/ RfLoop
    \/ RfIncrement
    \/ RfMark
    \/ RfSleep
    \/ RfGetTrack

SpecDownload == Init /\ [][NextDownload]_vars

\* the store's download operations called in any order, among download_track calls and
\* retry passes
StoreSteps ==
    \/ \E t \in TrackIds : AddTrack("p1", Track(t, "a"))
    \/ \E t \in TrackIds : CreateDownload(t)
    \/ \E t \in TrackIds, status \in DownloadStatus : UpdateDownloadStatus(t, status, NoText)
    \/ \E t \in TrackIds : IncrementRetryCount(t)
    \/ \E t \in TrackIds : DownloadTrackStart(Track(t, "a"))
    \/ DtCreate
    \/ DtMark
    \/ \E outcome \in {ExitOk, ExitFailed(15, 0)} : DtRun(outcome)
    \/ DtRecord
    \/ RetryStart
    \/ RfLoop
    \/ RfIncrement
    \/ RfMark
    \/ RfSleep
    \/ RfGetTrack

NextStore == StoreSteps /\ Len(downloads') <= MaxStoreRows

SpecStore == Init /\ [][NextStore]_vars

----------------------------------------------------------------------------
(* Claims about the download records and the orchestrator *)

\* C1: a Download row whose status is completed keeps that status through every step of
\* create_download, update_download_status (with any status), increment_retry_count,
\* download_track and retry_failed_downloads.
C1_CompletedIsSticky ==
    [][\A i \in DOMAIN downloads :
          downloads[i].status = COMPLETED
              => (i \in DOMAIN downloads' /\ downloads'[i].status = COMPLETED)]_vars

\* update_download_status with another status has just been called for a track that has a
\* completed row, and has changed another row of that track
C1_Witness ==
    /\ ret.op = "update_download_status"
    /\ ret.status # COMPLETED
    /\ \E i \in DOMAIN downloads :
          downloads[i].track_id = ret.track_id /\ downloads[i].status = COMPLETED
    /\ \E j \in DOMAIN downloads :
          downloads[j].track_id = ret.track_id /\ downloads[j].status = ret.status

\* C6: during and after a retry pass, every row that was failed with retry_count >=
\* max_retries when the pass read the failed rows is still failed with the same retry_count,
\* the executor was not invoked for its track, and a pass that found only such rows
\* returns {retried: 0, success: 0, failed: 0}.
C6_RowsAtLimitAreLeftAlone ==
    /\ rf.active =>
          \A k \in DOMAIN rf.failed_downloads :
              LET d == rf.failed_downloads[k]
              IN  d.retry_count >= max_retries =>
                      /\ downloads[d.id].status = FAILED
                      /\ downloads[d.id].retry_count = d.retry_count
                      /\ \A e \in DOMAIN log : ~(log[e].kind = "exec" /\ log[e].track_id = d.track_id)
    /\ ret.op = "retry_failed_downloads" =>
          /\ \A k \in DOMAIN ret.failed_downloads :
                LET d == ret.failed_downloads[k]
                IN  d.retry_count >= max_retries =>
                        /\ downloads[d.id].status = FAILED
                        /\ downloads[d.id].retry_count = d.retry_count
          /\ (\A k \in DOMAIN ret.failed_downloads : ret.failed_downloads[k].retry_count >= max_retries)
                => ret.value = [retried |-> 0, success |-> 0, failed |-> 0]

\* C7: download_batch of the empty list returns {success: 0, failed: 0}, has invoked no
\* executor and slept not at all, and leaves the downloads table as it was.
C7_EmptyBatchDoesNothing ==
    (ret.op = "download_batch" /\ ret.tracks = <<>>)
        => /\ ret.value = [success |-> 0, failed |-> 0]
           /\ log = <<>>
           /\ downloads = ret.downloads_before

\* an empty batch has returned with download rows in the store
C7_Witness ==
    /\ ret.op = "download_batch"
    /\ ret.tracks = <<>>
    /\ downloads # <<>>

CapturedErrorText(outcome) ==
    IF outcome.kind = "timeout" THEN Text("Download timed out", TimeoutMsgLen)
    ELSE IF outcome.kind = "error" THEN outcome.message
    ELSE IF outcome.stderr[2] # 0 THEN outcome.stderr
    ELSE IF outcome.stdout[2] # 0 THEN outcome.stdout
    ELSE Text("Unknown error", UnknownErrorLen)

FailedEvents(l) == {e \in DOMAIN l : l[e].kind = "exec" /\ ~l[e].ok}
ExecEvents(l) == {e \in DOMAIN l : l[e].kind = "exec"}

\* C9: when the executor has failed (non-zero exit, timeout or raised error), the step in
\* which download_track records it leaves the attempt's row failed with the captured error
\* text cut to at most 500 characters, and download_track returns failure; in a batch the
\* failure is counted and the batch goes on to the next track, so that a batch that returns
\* has run the executor for each of its tracks and counted every failure.
C9_ExecutorFailureIsRecorded ==
    [][/\ (pc = "dt_record" /\ ~Succeeded(dt.result)) =>
            LET row == downloads'[Len(downloads)]
                text == CapturedErrorText(dt.result)
            IN  /\ row.track_id = dt.track.track_id
                /\ row.status = FAILED
                /\ row.error_message = Text(text[1], Min(text[2], MaxErrorLen))
                /\ row.error_message[2] <= MaxErrorLen
                /\ dt.caller = "direct" => (ret'.op = "download_track" /\ ret'.value = FALSE)
                /\ dt.caller = "batch" =>
                      IF db.i < Len(db.tracks)
                      THEN /\ pc' \in {"db_sleep", "dt_create"}
                           /\ db'.results.failed = db.results.failed + 1
                      ELSE ret'.value.failed = db.results.failed + 1
       /\ ret'.op = "download_batch" =>
            /\ ret'.value.failed = Cardinality(FailedEvents(log'))
            /\ Cardinality(ExecEvents(log')) = Len(ret'.tracks)]_vars

\* a batch of two tracks has returned whose first download failed and whose second succeeded
C9_Witness ==
    /\ ret.op = "download_batch"
    /\ Len(ret.tracks) = 2
    /\ ret.value = [success |-> 1, failed |-> 1]
    /\ ~log[1].ok
    /\ log[3].ok
    /\ \E i \in DOMAIN downloads : downloads[i].status = FAILED /\ downloads[i].error_message[2] = MaxErrorLen

\* the edges of the state machine of section 4.3
StatusEdges ==
    {<<PENDING, DOWNLOADING>>, <<DOWNLOADING, COMPLETED>>, <<DOWNLOADING, FAILED>>,
     <<FAILED, RETRYING>>, <<RETRYING, COMPLETED>>, <<RETRYING, FAILED>>}

\* C10: every change of a Download row's status made by download_track, download_batch or
\* retry_failed_downloads is one of the edges pending->downloading, downloading->completed,
\* downloading->failed, failed->retrying, retrying->completed, retrying->failed.
C10_OnlyStateMachineEdges ==
    [][\A i \in DOMAIN downloads :
          downloads'[i].status # downloads[i].status
              => <<downloads[i].status, downloads'[i].status>> \in StatusEdges]_vars

\* C11: whenever retry_failed_downloads has returned normally, no Download row is in status
\* retrying, also when the track of a retried row is missing from the tracks table.
C11_RetryingIsTransient ==
    ret.op = "retry_failed_downloads"
        => \A i \in DOMAIN downloads : downloads[i].status # RETRYING

----------------------------------------------------------------------------
(* The scheduler (core/scheduler.py) around APScheduler's BackgroundScheduler and its    *)
(* thread pool (one instance per job id at a time), and the main thread of the service   *)
(* (service.py).  check_function is any callable: its body returns or raises.            *)

MaxTick == 3          \* ticks of the wall clock
MaxStarts == 2        \* calls of PlaylistScheduler.start
MaxPending == 2       \* jobs added while the scheduler is stopped
IntervalTicks == 1    \* check_interval_minutes, in ticks
CronTicks == 2        \* period of cron_schedule, in ticks

job_id == "playlist_check"
manual_id == "manual_check"
PoolKinds == {job_id, manual_id}
RunKinds == {"initial"} \cup PoolKinds

Job(id, trigger, next_run_time) ==
    [id |-> id, func |-> "safe_check_function", trigger |-> trigger, next_run_time |-> next_run_time]

\* trigger.get_next_fire_time(previous, now) of IntervalTrigger, CronTrigger and the date
\* trigger of a job added without trigger
NextFireTime(trigger, previous, t) ==
    IF trigger = "interval"
    THEN IF previous = NoTime THEN At(t + IntervalTicks)
         ELSE At(previous[1] + IntervalTicks * (((t - previous[1]) \div IntervalTicks) + 1))
    ELSE IF trigger = "cron" THEN At(((t \div CronTicks) + 1) * CronTicks)
    ELSE IF previous = NoTime THEN At(t) ELSE NoTime

\* add_job that keeps the stored job of the same id beside the new one
real_add_jobKeepsExisting(jobs, job, replace_existing, t) ==
    Append(jobs, [job EXCEPT !.next_run_time = NextFireTime(job.trigger, NoTime, t)])

\* add_job on a running scheduler: the job store raises on an existing id, and
\* replace_existing turns that into an update of the stored job
real_add_job(jobs, job, replace_existing, t) ==
    LET j == [job EXCEPT !.next_run_time = NextFireTime(job.trigger, NoTime, t)]
    IN  IF \E i \in DOMAIN jobs : jobs[i].id = job.id
        THEN IF replace_existing
             THEN [i \in DOMAIN jobs |-> IF jobs[i].id = job.id THEN j ELSE jobs[i]]
             ELSE jobs
        ELSE Append(jobs, j)

\* self.scheduler.add_job(...): pending while the scheduler is stopped
add_job(sch, job, replace_existing, t) ==
    IF sch.state = "stopped"
    THEN [sch EXCEPT !.pending = Append(@, [job |-> job, replace_existing |-> replace_existing])]
    ELSE [sch EXCEPT !.jobs = real_add_job(@, job, replace_existing, t)]

RECURSIVE AddPending(_, _, _)
AddPending(jobs, pending, t) ==
    IF pending = <<>> THEN jobs
    ELSE AddPending(real_add_job(jobs, Head(pending).job, Head(pending).replace_existing, t),
                    Tail(pending), t)

\* self.scheduler.start() of a stopped scheduler
scheduler_start(sch, t) ==
    [sch EXCEPT !.state = "running", !.jobs = AddPending(sch.jobs, sch.pending, t), !.pending = <<>>]

\* PlaylistScheduler.start: the scheduler after it; on a running scheduler the job is
\* replaced and self.scheduler.start() raises SchedulerAlreadyRunningError, which start re-raises
start(sch, t) ==
    LET trigger == IF sch.use_cron THEN "cron" ELSE "interval"
        added == add_job(sch, Job(job_id, trigger, NoTime), TRUE, t)
    IN  IF added.state = "running" THEN [added EXCEPT !.starts = @ + 1]
        ELSE [scheduler_start(added, t) EXCEPT !.starts = @ + 1]

\* trigger_immediate_check that adds its job under the id of the recurring job
trigger_immediate_checkReusesJobId(sch, t) == add_job(sch, Job(job_id, "date", NoTime), TRUE, t)

\* PlaylistScheduler.trigger_immediate_check
trigger_immediate_check(sch, t) == add_job(sch, Job(manual_id, "date", NoTime), TRUE, t)

\* PlaylistScheduler.get_next_run_time
get_next_run_time(sch) ==
    IF \E i \in DOMAIN sch.jobs : sch.jobs[i].id = job_id
    THEN sch.jobs[CHOOSE i \in DOMAIN sch.jobs : sch.jobs[i].id = job_id].next_run_time
    ELSE NoTime

\* a guard that lets the exception of the body through
safe_check_functionReraises(body) == body

\* _safe_check_function: how the guarded callback ends for the thread pool
safe_check_function(body) == "returned"

Due(sch, t) == {i \in DOMAIN sch.jobs : sch.jobs[i].next_run_time[1] <= t}

RemoveAt(seq, i) == [k \in 1..(Len(seq) - 1) |-> IF k < i THEN seq[k] ELSE seq[k + 1]]

InFlight == {k \in RunKinds : runs[k] = "running"}

\* service.start, lines 216-236: construct the scheduler from the settings, start it, and
\* enter the initial check in the main thread
SvcStartScheduler(use_cron) ==
    /\ service.pc = "new"
    /\ scheduler' = start([scheduler EXCEPT !.use_cron = use_cron], tick)
    /\ runs' = [runs EXCEPT !["initial"] = "running"]
    /\ service' = [service EXCEPT !.pc = "initial_check", !.last_call = "start"]
    /\ UNCHANGED tick
    /\ UNCHANGED <<workerVars, run>>

\* PlaylistScheduler.start called on the running scheduler
SchedulerStartAgain ==
    /\ scheduler.state = "running"
    /\ scheduler.starts < MaxStarts
    /\ service.pc # "exited"
    /\ scheduler' = start(scheduler, tick)
    /\ service' = [service EXCEPT !.last_call = "start"]
    /\ UNCHANGED <<runs, tick>>
    /\ UNCHANGED <<workerVars, run>>

\* time passes; a running scheduler wakes up at the fire time of its next job
Tick ==
    /\ tick < MaxTick
    /\ service.pc # "exited"
    /\ scheduler.state = "running" => Due(scheduler, tick) = {}
    /\ tick' = tick + 1
    /\ service' = [service EXCEPT !.last_call = "tick"]
    /\ UNCHANGED <<scheduler, runs>>
    /\ UNCHANGED <<workerVars, run>>

\* the scheduler thread submits a due job to the pool (skipped when an instance of the
\* job is running) and sets its next fire time; a job without one is removed
ProcessJob(i) ==
    /\ scheduler.state = "running"
    /\ i \in Due(scheduler, tick)
    /\ LET job == scheduler.jobs[i]
           next == NextFireTime(job.trigger, job.next_run_time, tick)
       IN  /\ runs' = [runs EXCEPT ![job.id] = "running"]
           /\ scheduler' = [scheduler EXCEPT !.jobs =
                             IF next = NoTime THEN RemoveAt(@, i)
                             ELSE [@ EXCEPT ![i].next_run_time = next]]
    /\ service' = [service EXCEPT !.last_call = "process_jobs", !.processed = scheduler.jobs[i].id]
    /\ UNCHANGED tick
    /\ UNCHANGED <<workerVars, run>>

\* a run in the pool ends: _safe_check_function returns to the executor
RunEnds(k, body) ==
    /\ k \in PoolKinds
    /\ runs[k] = "running"
    /\ service.pc # "exited"
    /\ runs' = [runs EXCEPT ![k] = "idle"]
    /\ service' = [service EXCEPT !.last_call = "run_ends",
                                  !.last_run = [active |-> TRUE, kind |-> k, body |-> body,
                                                guard |-> safe_check_function(body)],
                                  !.failed_runs = IF k = job_id /\ body = "raised" THEN @ + 1 ELSE @]
    /\ UNCHANGED <<scheduler, tick>>
    /\ UNCHANGED <<workerVars, run>>

\* the initial check returns in the main thread (check_and_download catches what its body
\* raises); the service goes on to _keep_alive
InitialCheckEnds ==
    /\ service.pc = "initial_check"
    /\ runs' = [runs EXCEPT !["initial"] = "idle"]
    /\ service' = [service EXCEPT !.pc = "keep_alive", !.last_call = "initial_check"]
    /\ UNCHANGED <<scheduler, tick>>
    /\ UNCHANGED <<workerVars, run>>

TriggerImmediateCheck ==
    /\ service.pc \in {"initial_check", "keep_alive", "stop_wait"}
    /\ Len(scheduler.pending) < MaxPending
    /\ scheduler' = trigger_immediate_check(scheduler, tick)
    /\ service' = [service EXCEPT !.last_call = "trigger_immediate_check"]
    /\ UNCHANGED <<runs, tick>>
    /\ UNCHANGED <<workerVars, run>>

\* SIGINT / SIGTERM: the handler runs in the main thread, on top of whatever it was
\* executing, and calls shutdown, which calls PlaylistScheduler.stop: shutdown(wait=True)
Signal ==
    /\ service.pc \in {"initial_check", "keep_alive"}
    /\ service.running
    /\ scheduler.state = "running"
    /\ scheduler' = [scheduler EXCEPT !.state = "stopped"]
    /\ service' = [service EXCEPT !.pc = "stop_wait", !.running = FALSE, !.last_call = "stop",
                                  !.stop = [active |-> TRUE, inflight |-> InFlight, returned |-> FALSE]]
    /\ UNCHANGED <<runs, tick>>
    /\ UNCHANGED <<workerVars, run>>

\* shutdown(wait=True) returns once the pool's running jobs have finished
StopReturns ==
    /\ service.pc = "stop_wait"
    /\ \A k \in PoolKinds : runs[k] # "running"
    /\ service' = [service EXCEPT !.pc = "stopped", !.last_call = "stop_returns", !.stop.returned = TRUE]
    /\ UNCHANGED <<scheduler, runs, tick>>
    /\ UNCHANGED <<workerVars, run>>

\* shutdown: sys.exit(0) unwinds the main thread, through an initial check still on it
Exit ==
    /\ service.pc = "stopped"
    /\ service' = [service EXCEPT !.pc = "exited", !.last_call = "exit"]
    /\ runs' = [k \in RunKinds |-> IF runs[k] = "running" THEN "aborted" ELSE runs[k]]
    /\ UNCHANGED <<scheduler, tick>>
    /\ UNCHANGED <<workerVars, run>>

NextScheduler ==
    \/ \E use_cron \in BOOLEAN : SvcStartScheduler(use_cron)
    \/ SchedulerStartAgain
    \/ Tick
    \/ \E i \in DOMAIN scheduler.jobs : ProcessJob(i)
    \/ \E k \in PoolKinds, body \in {"returned", "raised"} : RunEnds(k, body)
    \/ InitialCheckEnds
    \/ TriggerImmediateCheck
    \/ Signal
    \/ StopReturns
    \/ Exit

SpecScheduler == Init /\ [][NextScheduler]_vars

----------------------------------------------------------------------------
(* Claims about the scheduler *)

\* the recurring job definitions, stored or pending
RecurringJobs(sch) ==
    [i \in {k \in DOMAIN sch.jobs : sch.jobs[k].trigger # "date"} |-> sch.jobs[i]]

RecurringCount(sch) ==
    Cardinality({i \in DOMAIN sch.jobs : sch.jobs[i].trigger # "date"})
    + Cardinality({i \in DOMAIN sch.pending : sch.pending[i].job.trigger # "date"})

\* C13: when the body of a scheduled run has raised, the guard has caught the exception (the
\* guarded callback returns to the pool), the recurring job is still registered with a next
\* fire time, and a due fire of the recurring job starts the callback again whenever no
\* instance of it is running, whatever the number of failed runs before.
C13_ScheduleSurvivesRunFailures ==
    [][/\ (service'.last_run.active /\ service'.last_run.body = "raised")
            => /\ service'.last_run.guard = "returned"
               /\ get_next_run_time(scheduler') # NoTime
       /\ \A i \in DOMAIN scheduler.jobs :
            (/\ service'.last_call = "process_jobs"
             /\ service'.processed = job_id
             /\ scheduler.state = "running"
             /\ scheduler.jobs[i].id = job_id
             /\ i \in Due(scheduler, tick)
             /\ service.failed_runs > 0)
                => /\ runs'[job_id] = "running"
                   /\ get_next_run_time(scheduler') # NoTime
                   /\ get_next_run_time(scheduler')[1] > tick]_vars

\* two scheduled runs have failed and the recurring job is running once more
C13_Witness ==
    /\ service.failed_runs >= 2
    /\ service.last_run.kind = job_id
    /\ service.last_run.body = "raised"
    /\ runs[job_id] = "running"
    /\ service.last_call = "process_jobs"
    /\ service.processed = job_id

\* C14: at most one execution of the check callback is in flight, whether started by the
\* recurring job, by trigger_immediate_check or as the initial check of service.start.
C14_OneRunInFlight == Cardinality(InFlight) <= 1

\* C15: trigger_immediate_check adds a job that runs _safe_check_function and leaves the
\* recurring job as it was: same definition, same next run time.
C15_RunNowLeavesRecurringJob ==
    [][service'.last_call = "trigger_immediate_check"
          => /\ RecurringJobs(scheduler') = RecurringJobs(scheduler)
             /\ get_next_run_time(scheduler') = get_next_run_time(scheduler)
             /\ scheduler'.pending = <<>> =>
                   \E i \in DOMAIN scheduler'.jobs :
                       /\ scheduler'.jobs[i].id = manual_id
                       /\ scheduler'.jobs[i].func = Job(job_id, "interval", NoTime).func
                       /\ scheduler'.jobs[i].next_run_time = At(tick)
             /\ scheduler'.pending # <<>> =>
                   scheduler'.pending[Len(scheduler'.pending)].job.func = Job(job_id, "interval", NoTime).func]_vars

\* trigger_immediate_check has just been called on the running scheduler, whose recurring
\* job has fired before
C15_Witness ==
    /\ service.last_call = "trigger_immediate_check"
    /\ scheduler.state = "running"
    /\ get_next_run_time(scheduler) # NoTime
    /\ get_next_run_time(scheduler)[1] > 1
    /\ \E i \in DOMAIN scheduler.jobs : scheduler.jobs[i].id = manual_id

\* C16: there is at most one recurring job definition; once start was called there is exactly
\* one, under the id of the recurring job, with the cron trigger if use_cron and the interval
\* trigger if not, also after start was called again.
C16_OneRecurringJobDefinition ==
    /\ RecurringCount(scheduler) <= 1
    /\ scheduler.starts >= 1 =>
          /\ RecurringCount(scheduler) = 1
          /\ \E i \in DOMAIN scheduler.jobs :
                /\ scheduler.jobs[i].id = job_id
                /\ scheduler.jobs[i].trigger = IF scheduler.use_cron THEN "cron" ELSE "interval"

\* start was called a second time, after the recurring job had fired
C16_Witness ==
    /\ scheduler.starts = 2
    /\ service.last_call = "start"
    /\ tick >= 2
    /\ Len(scheduler.jobs) = 2

\* C17: when PlaylistScheduler.stop has returned, every run of the callback that was executing
\* when stop was called has finished; and no run starts after stop has returned.
C17_StopWaitsForRunInFlight ==
    [][/\ (service'.stop.active /\ service'.stop.returned)
            => \A k \in service'.stop.inflight : runs'[k] # "running"
       /\ (service.stop.active /\ service.stop.returned)
            => \A k \in RunKinds : runs[k] # "running" => runs'[k] # "running"]_vars

----------------------------------------------------------------------------
(* The pipeline run: check_and_download (service.py 106-154) and check_all_playlists   *)
(* (monitor.py 184-206), executed by one thread, with the steps of check_playlist and  *)
(* download_batch above; the process may be killed in the middle of a run.             *)

MaxRuns == 2          \* runs of check_and_download
MaxCrashes == 1       \* runs cut by a crash of the process

\* get_monitored_playlists(enabled_only=False): the ids of all rows
get_monitored_playlistsAll(tbl) == {r.playlist_id : r \in tbl}

\* get_monitored_playlists(enabled_only=True): the ids of the enabled rows
get_monitored_playlists(tbl) == {r.playlist_id : r \in {x \in tbl : x.enabled}}

\* the orders in which SELECT * FROM playlists may list the rows
Orders(S) ==
    {o \in [1..Cardinality(S) -> S] : \A i, j \in 1..Cardinality(S) : i # j => o[i] # o[j]}

\* results[playlist_id] = ... in a dict that keeps its keys in insertion order
SetItem(results, key, value) ==
    IF \E i \in DOMAIN results : results[i].playlist_id = key
    THEN [i \in DOMAIN results |->
            IF results[i].playlist_id = key THEN [playlist_id |-> key, new_tracks |-> value]
            ELSE results[i]]
    ELSE Append(results, [playlist_id |-> key, new_tracks |-> value])

\* a collection that leaves a playlist out when its check failed
collectSkipsFailed(results, r) ==
    IF r.outcome = "ok" THEN SetItem(results, r.playlist_id, r.value) ELSE results

\* check_all_playlists, the body of its loop once check_playlist has returned or raised r
collect(results, r) ==
    IF r.outcome = "ok" THEN SetItem(results, r.playlist_id, r.value)
    ELSE SetItem(results, r.playlist_id, <<>>)

\* all_new_tracks holding the new tracks of the first playlist only
AllNewTracksOfFirst(results) ==
    IF results = <<>> THEN <<>> ELSE Head(results).new_tracks

\* check_and_download: all_new_tracks.extend(new_tracks) over results.items()
RECURSIVE AllNewTracks(_)
AllNewTracks(results) ==
    IF results = <<>> THEN <<>>
    ELSE Head(results).new_tracks \o AllNewTracks(Tail(results))

\* config/settings.py: NotificationConfig, its defaults
NotificationConfig ==
    [enabled |-> TRUE, on_new_tracks |-> TRUE, on_download_complete |-> TRUE, on_error |-> FALSE]

\* what _detect_backend may find, and what the backend's call may do
Backends == {"winotify", "plyer", NULL}
Deliveries == {"shown", "raises"}

\* Notifier.__init__: without a backend the notifier disables itself
Notifier(enabled, backend) == [enabled |-> enabled /\ backend # NULL, backend |-> backend]

\* a send that lets the error of the delivery through
sendPropagates(notifier, delivery) ==
    IF ~notifier.enabled THEN [raised |-> FALSE, value |-> FALSE]
    ELSE [raised |-> delivery = "raises", value |-> delivery = "shown"]

\* Notifier.send: False when disabled; _send_winotify and _send_plyer return True, or catch
\* what the delivery raises and return False
send(notifier, delivery) ==
    IF ~notifier.enabled THEN [raised |-> FALSE, value |-> FALSE]
    ELSE IF notifier.backend \in {"winotify", "plyer"}
    THEN [raised |-> FALSE, value |-> delivery = "shown"]
    ELSE [raised |-> FALSE, value |-> FALSE]

\* check_and_download, the loop over results.items(): what notify_new_tracks gave for each
\* playlist with new tracks, up to the first call that raised
RECURSIVE NotifyNewTracks(_, _, _)
NotifyNewTracks(results, notifier, deliveries) ==
    IF results = <<>> THEN <<>>
    ELSE IF Head(results).new_tracks = <<>> \/ ~NotificationConfig.on_new_tracks
    THEN NotifyNewTracks(Tail(results), notifier, deliveries)
    ELSE LET sent == send(notifier, deliveries[Head(results).playlist_id])
         IN  IF sent.raised THEN <<sent>>
             ELSE <<sent>> \o NotifyNewTracks(Tail(results), notifier, deliveries)

\* check_and_download returns (clean) or ends in its except clause
EndRun(clean) ==
    /\ run' = [run EXCEPT !.active = FALSE, !.stage = "idle", !.last_clean = clean,
                          !.clean_after_crash = @ \/ (clean /\ run.crashes > 0)]
    /\ ret' = NoRet

\* check_and_download is called and check_all_playlists reads the enabled playlists
RunStart(order) ==
    /\ ~run.active
    /\ pc = "idle"
    /\ run.n < MaxRuns
    /\ order \in Orders(get_monitored_playlists(playlists))
    /\ run' = [run EXCEPT !.active = TRUE, !.stage = "checking", !.todo = order,
                          !.enabled = get_monitored_playlists(playlists), !.results = <<>>,
                          !.outcomes = <<>>, !.all_new_tracks = <<>>, !.store_error = FALSE,
                          !.failed = FALSE, !.n = @ + 1]
    /\ ret' = NoRet
    /\ log' = <<>>
    /\ UNCHANGED <<playlists, tracks, downloads, clock, max_retries, peer, pc, cp, dt, db, rf, last_ok>>
    /\ UNCHANGED <<scheduler, runs, service, tick>>

\* get_monitored_playlists fails: the error leaves check_all_playlists and is caught and
\* logged by check_and_download
RunStartFails ==
    /\ ~run.active
    /\ pc = "idle"
    /\ run.n < MaxRuns
    /\ run' = [run EXCEPT !.n = @ + 1, !.last_clean = FALSE, !.results = <<>>, !.outcomes = <<>>,
                          !.all_new_tracks = <<>>, !.enabled = {}, !.store_error = TRUE, !.failed = TRUE]
    /\ ret' = NoRet
    /\ log' = <<>>
    /\ UNCHANGED <<playlists, tracks, downloads, clock, max_retries, peer, pc, cp, dt, db, rf, last_ok>>
    /\ UNCHANGED <<scheduler, runs, service, tick>>

\* check_all_playlists calls check_playlist for the next playlist
CaCheck ==
    /\ run.active
    /\ run.stage = "checking"
    /\ run.todo # <<>>
    /\ ret = NoRet
    /\ CheckPlaylistStart(Head(run.todo))

\* check_playlist has returned or raised: results[playlist_id] = new_tracks or []
CaCollect ==
    /\ run.active
    /\ run.stage = "checking"
    /\ pc = "idle"
    /\ ret.op = "check_playlist"
    /\ run' = [run EXCEPT !.results = collect(@, ret),
                          !.outcomes = Append(@, [playlist_id |-> ret.playlist_id, outcome |-> ret.outcome]),
                          !.todo = Tail(@),
                          !.store_error = @ \/ (ret.outcome = "raise" /\ ret.why = "StoreError"),
                          !.failed = @ \/ ret.outcome = "raise"]
    /\ ret' = NoRet
    /\ UNCHANGED <<playlists, tracks, downloads, clock, max_retries, peer, pc, cp, dt, db, rf, log, last_ok>>
    /\ UNCHANGED <<scheduler, runs, service, tick>>

\* check_all_playlists returns results; check_and_download goes through them, notifies for
\* each playlist with new tracks and collects all_new_tracks; ret.sent is what the
\* notifications gave.  A notification that raised would end the run in the except clause
CaReturn ==
    /\ run.active
    /\ run.stage = "checking"
    /\ run.todo = <<>>
    /\ pc = "idle"
    /\ ret = NoRet
    /\ \E sent \in {NotifyNewTracks(run.results, Notifier(NotificationConfig.enabled, backend), deliveries) :
                        backend \in Backends, deliveries \in [PlaylistIds -> Deliveries]} :
              /\ run' = IF \E i \in DOMAIN sent : sent[i].raised
                        THEN [run EXCEPT !.active = FALSE, !.stage = "idle", !.last_clean = FALSE]
                        ELSE [run EXCEPT !.stage = "collected", !.all_new_tracks = AllNewTracks(run.results)]
              /\ ret' = [op |-> "check_all_playlists", value |-> run.results, enabled |-> run.enabled,
                         outcomes |-> run.outcomes, sent |-> sent]
    /\ UNCHANGED <<playlists, tracks, downloads, clock, max_retries, peer, pc, cp, dt, db, rf, log, last_ok>>
    /\ UNCHANGED <<scheduler, runs, service, tick>>

\* "No new tracks found": return
CadNoNewTracks ==
    /\ run.active
    /\ run.stage = "collected"
    /\ ret.op = "check_all_playlists"
    /\ run.all_new_tracks = <<>>
    /\ EndRun(~run.failed)
    /\ UNCHANGED <<playlists, tracks, downloads, clock, max_retries, peer, pc, cp, dt, db, rf, log, last_ok>>
    /\ UNCHANGED <<scheduler, runs, service, tick>>

\* self.db.get_playlist(playlist_id) fails for a playlist with new tracks: caught by the
\* except clause of check_and_download, nothing is downloaded
CadGetPlaylistFails ==
    /\ run.active
    /\ run.stage = "collected"
    /\ ret.op = "check_all_playlists"
    /\ run.all_new_tracks # <<>>
    /\ EndRun(FALSE)
    /\ UNCHANGED <<playlists, tracks, downloads, clock, max_retries, peer, pc, cp, dt, db, rf, log, last_ok>>
    /\ UNCHANGED <<scheduler, runs, service, tick>>

\* self.downloader.download_batch(all_new_tracks)
CadDownloadBatch ==
    /\ run.active
    /\ run.stage = "collected"
    /\ ret.op = "check_all_playlists"
    /\ run.all_new_tracks # <<>>
    /\ DownloadBatchStart(run.all_new_tracks)

\* download_batch has returned: notify_download_complete(success, failed), "Scheduled
\* check complete"; ret tells the notification made
CadReturn ==
    /\ run.active
    /\ run.stage = "collected"
    /\ pc = "idle"
    /\ ret.op = "download_batch"
    /\ \E raised \in {NotificationConfig.on_download_complete
                           /\ send(Notifier(NotificationConfig.enabled, backend), delivery).raised :
                          backend \in Backends, delivery \in Deliveries} :
          /\ run' = [run EXCEPT !.active = FALSE, !.stage = "idle", !.last_clean = ~run.failed /\ ~raised,
                                !.clean_after_crash = @ \/ (~run.failed /\ ~raised /\ run.crashes > 0)]
          /\ ret' = IF NotificationConfig.on_download_complete
                    THEN [op |-> "notify_download_complete", success |-> ret.value.success,
                          failed |-> ret.value.failed, tracks |-> ret.tracks]
                    ELSE NoRet
    /\ UNCHANGED <<playlists, tracks, downloads, clock, max_retries, peer, pc, cp, dt, db, rf, log, last_ok>>
    /\ UNCHANGED <<scheduler, runs, service, tick>>

\* the process is killed in the middle of a run: the locals are gone, the committed
\* rows of the store stay
Crash ==
    /\ run.active
    /\ run.crashes < MaxCrashes
    /\ run' = [run EXCEPT !.active = FALSE, !.stage = "idle", !.crashes = @ + 1,
                          !.last_clean = FALSE, !.clean_after_crash = FALSE]
    /\ pc' = "idle"
    /\ cp' = NoCall
    /\ dt' = NoCall
    /\ db' = NoCall
    /\ ret' = NoRet
    /\ log' = <<>>
    /\ last_ok' = NoCheck
    /\ UNCHANGED <<playlists, tracks, downloads, clock, max_retries, peer, rf>>
    /\ UNCHANGED <<scheduler, runs, service, tick>>

\* what one playlist holds when it is fetched
PipelineLists == SeqsUpTo({Track(t, "a") : t \in TrackIds}, 1)

NextPipeline ==
    \/ \E p \in PlaylistIds : ~run.active /\ run.n = 0 /\ AddPlaylist(p, TRUE)
    \/ \E order \in Orders(PlaylistIds) \cup Orders({"p1"}) \cup Orders({"p2"}) \cup Orders({}) : RunStart(order)
    \/ RunStartFails
    \/ CaCheck
    \/ CpGetPlaylist
    \/ CpGetPlaylistFails("NotFound")
    \/ \E items \in PipelineLists : CpGetTracks(items)
    \/ CpGetTracksFails
    \/ CpDetect
    \/ CpUpdateTracks
    \/ CpUpdateTracksFails
    \/ CpUpdateLastChecked
    \/ CpUpdateLastCheckedFails
    \/ CaCollect
    \/ CaReturn
    \/ CadNoNewTracks
    \/ CadGetPlaylistFails
    \/ CadDownloadBatch
    \/ DtCreate
    \/ DtMark
    \/ \E outcome \in {ExitOk, ExitFailed(15, 0)} : DtRun(outcome)
    \/ DtRecord
    \/ DbSleep
    \/ CadReturn
    \/ Crash

SpecPipeline == Init /\ [][NextPipeline]_vars

----------------------------------------------------------------------------
(* Claims about the pipeline run *)

\* C12: when check_all_playlists returns, check_playlist has been called for each enabled
\* playlist, also after a check that failed, and the mapping has exactly one key per enabled
\* playlist, with the empty list for each playlist whose check failed.
C12_PlaylistFailuresAreIsolated ==
    ret.op = "check_all_playlists"
        => /\ {ret.outcomes[i].playlist_id : i \in DOMAIN ret.outcomes} = ret.enabled
           /\ {ret.value[i].playlist_id : i \in DOMAIN ret.value} = ret.enabled
           /\ Len(ret.value) = Cardinality(ret.enabled)
           /\ \A i \in DOMAIN ret.outcomes :
                 ret.outcomes[i].outcome = "raise"
                     => \E k \in DOMAIN ret.value :
                           /\ ret.value[k].playlist_id = ret.outcomes[i].playlist_id
                           /\ ret.value[k].new_tracks = <<>>

\* check_all_playlists has returned for two enabled playlists: the first check failed, the
\* second found a new track
C12_Witness ==
    /\ ret.op = "check_all_playlists"
    /\ Len(ret.outcomes) = 2
    /\ ret.outcomes[1].outcome = "raise"
    /\ ret.outcomes[2].outcome = "ok"
    /\ ret.value[2].new_tracks # <<>>

\* C18: once a store operation has failed in a run, the run does no further work: no
\* check_playlist, download_batch or download_track is executing in it afterwards.
C18_StoreErrorAbortsTheRun ==
    (run.active /\ run.store_error) => (pc = "idle" /\ cp = NoCall /\ dt = NoCall /\ db = NoCall)

\* C19: every track that check_playlist has recorded (a row of the tracks table) has been
\* handed to the downloader (it has a Download row) by the time a later run has ended
\* without any failure, whatever happened to the run that recorded it.
C19_RecordedTracksAreDownloaded ==
    (~run.active /\ run.last_clean)
        => \A r \in tracks : \E i \in DOMAIN downloads : downloads[i].track_id = r.track_id

\* C20: after a crash, rows of at most one track are in status downloading, and once a
\* later run has ended without failure no row is in status downloading any more.
C20_CrashLeavesNoRowDownloading ==
    /\ (run.crashes > 0 /\ ~run.active)
          => Cardinality({downloads[i].track_id : i \in {k \in DOMAIN downloads : downloads[k].status = DOWNLOADING}}) <= 1
    /\ (run.clean_after_crash /\ ~run.active)
          => \A i \in DOMAIN downloads : downloads[i].status # DOWNLOADING

----------------------------------------------------------------------------
(* The playlists and tracks of the store, through the operations of DatabaseHandler     *)
(* (cli.py calls them between runs) and through check_playlist.                          *)

\* remove_playlist: DELETE FROM playlists WHERE playlist_id = ?.  get_connection does not
\* switch foreign keys on and no table declares ON DELETE CASCADE: tracks is not touched
remove_playlist(tbl, playlist_id) == {r \in tbl : r.playlist_id # playlist_id}

\* enable_playlist: UPDATE playlists SET enabled = ? WHERE playlist_id = ?
enable_playlist(tbl, playlist_id, enabled) ==
    {IF r.playlist_id = playlist_id THEN [r EXCEPT !.enabled = enabled] ELSE r : r \in tbl}

\* get_playlist: the rows of that id (fetchone returns one of them, None when there is none)
get_playlist(tbl, playlist_id) == {r \in tbl : r.playlist_id = playlist_id}

\* the Playlist objects a caller may hand to add_playlist: last_checked is a field of the
\* dataclass, None in a new object and set in one that get_playlist returned
PlaylistEntities ==
    [playlist_id : PlaylistIds, last_checked : {NoTime, At(1)}, track_count : {0, 1}, enabled : {TRUE}]

\* add_playlist(playlist) for any Playlist object
AddPlaylistEntity(playlist) ==
    /\ pc = "idle"
    /\ playlists' = add_playlist(playlists, playlist.playlist_id, playlist.track_count, playlist.enabled)
    /\ ret' = [op |-> "add_playlist", playlist |-> playlist]
    /\ log' = <<>>
    /\ last_ok' = NoCheck
    /\ UNCHANGED <<tracks, downloads, clock, max_retries, peer, pc, cp, dt, db, rf>>
    /\ UNCHANGED serviceVars

RemovePlaylist(p) ==
    /\ pc = "idle"
    /\ playlists' = remove_playlist(playlists, p)
    /\ ret' = [op |-> "remove_playlist", playlist_id |-> p]
    /\ log' = <<>>
    /\ last_ok' = NoCheck
    /\ UNCHANGED <<tracks, downloads, clock, max_retries, peer, pc, cp, dt, db, rf>>
    /\ UNCHANGED serviceVars

\* update_playlist_tracks(playlist_id, tracks) called for a monitored playlist, outside
\* check_playlist: one transaction
UpdatePlaylistTracks(p, list) ==
    /\ pc = "idle"
    /\ get_playlist(playlists, p) # {}
    /\ tracks' = update_playlist_tracks(tracks, p, list)
    /\ playlists' = SetTrackCount(playlists, p, Len(list))
    /\ ret' = [op |-> "update_playlist_tracks", playlist_id |-> p, tracks |-> list]
    /\ log' = <<>>
    /\ last_ok' = NoCheck
    /\ UNCHANGED <<downloads, clock, max_retries, peer, pc, cp, dt, db, rf>>
    /\ UNCHANGED serviceVars

\* the remote metadata of a track may differ from one fetch to the next
Titles == {"a", "b"}
CatalogItems == {Track(t, ti) : t \in TrackIds, ti \in Titles}
CatalogLists == SeqsUpTo(CatalogItems, 1)

NextCatalog ==
    \/ \E playlist \in PlaylistEntities : AddPlaylistEntity(playlist)
    \/ \E p \in PlaylistIds : RemovePlaylist(p)
    \/ \E p \in PlaylistIds, list \in CatalogLists : UpdatePlaylistTracks(p, list)
    \/ \E p \in PlaylistIds : CheckPlaylistStart(p)
    \/ CpGetPlaylist
    \/ \E items \in CatalogLists : CpGetTracks(items)
    \/ CpDetect
    \/ CpUpdateTracks
    \/ CpUpdateLastChecked

SpecCatalog == Init /\ [][NextCatalog]_vars

----------------------------------------------------------------------------
(* Claims about the playlists and tracks of the store *)

\* the rows of the playlists other than p, in both tables
OtherRows(pl, tr, p) ==
    [playlists |-> {r \in pl : r.playlist_id # p}, tracks |-> {r \in tr : r.playlist_id # p}]

\* C21: after remove_playlist(id), get_playlist(id) finds no row and no track id is stored
\* for id, and the rows of every other playlist and of its tracks are what they were.
C21_RemoveDeletesPlaylistAndItsTracks ==
    [][(pc = "idle" /\ ret'.op = "remove_playlist")
          => /\ get_playlist(playlists', ret'.playlist_id) = {}
             /\ get_playlist_track_ids(tracks', ret'.playlist_id) = {}
             /\ OtherRows(playlists', tracks', ret'.playlist_id)
                  = OtherRows(playlists, tracks, ret'.playlist_id)]_vars

\* C22: no update_playlist_tracks and no step of check_playlist changes or removes a stored
\* tracks row, whatever metadata the list or the snapshot carries for its id, and the table
\* never holds two rows with the same (playlist_id, track_id).
C22_StoredTracksAreNeverOverwritten ==
    [][ret'.op # "remove_playlist"
          => /\ \A r \in tracks : r \in tracks'
             /\ \A r1, r2 \in tracks' :
                   (r1.playlist_id = r2.playlist_id /\ r1.track_id = r2.track_id) => r1 = r2]_vars

\* a check has returned whose snapshot carries another title for a track id stored before
C22_Witness ==
    /\ CheckReturned
    /\ \E i \in DOMAIN ret.snapshot, r \in tracks :
          /\ r.playlist_id = ret.playlist_id
          /\ r.track_id = ret.snapshot[i].track_id
          /\ r.track_id \in ret.known
          /\ r.title # ret.snapshot[i].title

\* C23: after add_playlist(p) the store holds exactly one row for p's id and get_playlist
\* returns the fields of p; the rows of the other playlists and all tracks rows are what
\* they were; no playlist id ever has two rows.
C23_AddPlaylistIsUpsertByIdentity ==
    [][(pc = "idle" /\ ret'.op = "add_playlist")
          => /\ get_playlist(playlists', ret'.playlist.playlist_id) = {ret'.playlist}
             /\ {r \in playlists' : r.playlist_id # ret'.playlist.playlist_id}
                  = {r \in playlists : r.playlist_id # ret'.playlist.playlist_id}
             /\ tracks' = tracks
             /\ \A q \in PlaylistIds : Cardinality(get_playlist(playlists', q)) <= 1]_vars

\* the notifications of the run that has just collected its new tracks, and those that failed
SentFailed(r) == {i \in DOMAIN r.sent : ~r.sent[i].value}

\* C24: no notification raises, whatever the delivery does; when a new-tracks notification of
\* a run has failed, the run goes on with all the new tracks of that run collected, and the
\* download_batch of a run is called with exactly the tracks the run has collected.
C24_NotificationFailureDoesNotAbort ==
    /\ ret.op = "check_all_playlists" =>
          /\ \A i \in DOMAIN ret.sent : ~ret.sent[i].raised /\ ret.sent[i].value \in BOOLEAN
          /\ SentFailed(ret) # {} =>
                /\ run.active
                /\ run.stage = "collected"
                /\ run.all_new_tracks = AllNewTracks(ret.value)
                /\ run.all_new_tracks # <<>>
    /\ (run.active /\ db.active) => db.tracks = run.all_new_tracks

\* two playlists had new tracks; the notification for the first failed, the one for the
\* second was shown; the run has collected the tracks of both
C24_Witness ==
    /\ ret.op = "check_all_playlists"
    /\ Len(ret.sent) = 2
    /\ ~ret.sent[1].value
    /\ ret.sent[2].value
    /\ run.active
    /\ Len(run.all_new_tracks) = 2

----------------------------------------------------------------------------
(* The settings (config/settings.py) and the construction of the service *)

valid_qualities == {"LOW", "HIGH", "LOSSLESS", "HI_RES"}

\* the values of a loaded configuration
SettingsOf(data) ==
    [audio_quality |-> data.audio_quality, max_retries |-> data.max_retries, retry_delay |-> data.retry_delay,
     delay_between_downloads |-> data.delay_between_downloads,
     check_interval_minutes |-> data.check_interval_minutes]

\* SchedulerConfig.__post_init__: TRUE when it raises ValueError
SchedulerConfigRaises(data) == data.check_interval_minutes < 5

\* DownloadConfig.__post_init__: TRUE when it raises ValueError
DownloadConfigRaises(data) ==
    \/ data.audio_quality \notin valid_qualities
    \/ ~(0 <= data.max_retries /\ data.max_retries <= 10)
    \/ data.retry_delay < 10
    \/ data.delay_between_downloads < 1

\* Settings.from_file: the settings of the file, or the exception raised
from_file(file) ==
    IF ~file.exists THEN [raised |-> TRUE, error |-> "FileNotFoundError"]
    ELSE IF SchedulerConfigRaises(file) \/ DownloadConfigRaises(file)
         THEN [raised |-> TRUE, error |-> "ValueError"]
         ELSE [raised |-> FALSE, value |-> SettingsOf(file)]

\* Settings.from_file_or_default: whatever from_file raises is logged as a warning and
\* the defaults are returned
from_file_or_default(file) ==
    IF file.exists
    THEN IF from_file(file).raised THEN DefaultSettings ELSE from_file(file).value
    ELSE DefaultSettings

\* the configuration files explored: each key in range, at its limits, and out of range
ConfigFiles ==
    [exists : {TRUE}, audio_quality : {"HI_RES", "LOSSLESS", "MAX"}, max_retries : {-1, 0, 10, 11},
     retry_delay : {9, 10}, delay_between_downloads : {0, 1}, check_interval_minutes : {4, 5}]

\* TidalPlaylistService.__init__ with a configuration file in place
ServiceInit(file) ==
    /\ service.pc = "new"
    /\ ~service.config.exists
    /\ service' = [service EXCEPT !.config = file, !.settings = from_file_or_default(file),
                                  !.last_call = "init"]
    /\ UNCHANGED <<scheduler, runs, tick>>
    /\ UNCHANGED <<workerVars, run>>

NextSettings ==
    \/ \E file \in ConfigFiles : ServiceInit(file)
    \/ \E use_cron \in BOOLEAN : SvcStartScheduler(use_cron)
    \/ InitialCheckEnds
    \/ Signal
    \/ StopReturns
    \/ Exit

SpecSettings == Init /\ [][NextSettings]_vars

\* the allowed range of every validated setting
InAllowedRange(c) ==
    /\ c.audio_quality \in {"LOW", "HIGH", "LOSSLESS", "HI_RES"}
    /\ c.max_retries \in 0..10
    /\ c.retry_delay >= 10
    /\ c.delay_between_downloads >= 1
    /\ c.check_interval_minutes >= 5

\* C25: when the loaded configuration holds a value outside its allowed range, loading
\* fails and the service does not start: no check runs, and whenever a check runs or has
\* run, the settings in use are in range and are those of the configuration file, not
\* values substituted for them
C25_InvalidConfigurationFailsFast ==
    service.config.exists =>
        /\ ~InAllowedRange(service.config) =>
              /\ service.pc = "new"
              /\ \A k \in RunKinds : runs[k] = "idle"
        /\ service.pc # "new" =>
              /\ InAllowedRange(service.settings)
              /\ service.settings = SettingsOf(service.config)

----------------------------------------------------------------------------
(* Two runs at once: download_track in the thread of another run (the initial check in
   the main thread beside a job of the pool, or two jobs of the pool), interleaved with
   this thread's at every store operation and executor call *)

\* the other thread calls download_track(track)
PeerStart(track) ==
    /\ ~peer.active
    /\ Len(downloads) < MaxDownloads
    /\ peer' = [active |-> TRUE, pc |-> "dt_create", track |-> track, result |-> ExitOk]
    /\ UNCHANGED <<playlists, tracks, downloads, clock, max_retries, pc, cp, dt, db, rf, log, ret, last_ok>>
    /\ UNCHANGED serviceVars

\* create_download(track.track_id) in the other thread
PeerCreate ==
    /\ peer.active /\ peer.pc = "dt_create"
    /\ downloads' = create_download(downloads, peer.track.track_id)
    /\ peer' = [peer EXCEPT !.pc = "dt_mark"]
    /\ UNCHANGED <<playlists, tracks, clock, max_retries, pc, cp, dt, db, rf, log, ret, last_ok>>
    /\ UNCHANGED serviceVars

\* update_download_status(track.track_id, DOWNLOADING) in the other thread
PeerMark ==
    /\ peer.active /\ peer.pc = "dt_mark"
    /\ downloads' = update_download_status(downloads, peer.track.track_id, DOWNLOADING, NoText, clock)
    /\ peer' = [peer EXCEPT !.pc = "dt_run"]
    /\ UNCHANGED <<playlists, tracks, clock, max_retries, pc, cp, dt, db, rf, log, ret, last_ok>>
    /\ UNCHANGED serviceVars

\* the executor of the other thread returns, times out or raises
PeerRun(outcome) ==
    /\ peer.active /\ peer.pc = "dt_run"
    /\ peer' = [peer EXCEPT !.pc = "dt_record", !.result = outcome]
    /\ UNCHANGED <<playlists, tracks, downloads, clock, max_retries, pc, cp, dt, db, rf, log, ret, last_ok>>
    /\ UNCHANGED serviceVars

\* the other thread records the outcome and its download_track returns
PeerRecord ==
    /\ peer.active /\ peer.pc = "dt_record"
    /\ downloads' =
        IF Succeeded(peer.result)
        THEN update_download_status(downloads, peer.track.track_id, COMPLETED, NoText, clock)
        ELSE update_download_status(downloads, peer.track.track_id, FAILED, ErrorMessage(peer.result), clock)
    /\ peer' = NoCall
    /\ UNCHANGED <<playlists, tracks, clock, max_retries, pc, cp, dt, db, rf, log, ret, last_ok>>
    /\ UNCHANGED serviceVars

NextOverlap ==
    \/ \E t \in TrackIds : DownloadTrackStart(Track(t, "a"))
    \/ DtCreate
    \/ DtMark
    \/ \E outcome \in ExecOutcomes : DtRun(outcome)
    \/ DtRecord
    \/ \E t \in TrackIds : PeerStart(Track(t, "a"))
    \/ PeerCreate
    \/ PeerMark
    \/ \E outcome \in ExecOutcomes : PeerRun(outcome)
    \/ PeerRecord

SpecOverlap == Init /\ [][NextOverlap]_vars

\* the value the download_track call of this thread gives to its caller, in the step
\* in which it returns
DtReturnsSuccess ==
    CASE dt.caller = "direct" -> ret'.value
      [] dt.caller = "retry" -> rf'.stats.success = rf.stats.success + 1
      [] dt.caller = "batch" ->
            (IF db'.active THEN db'.results.success ELSE ret'.value.success) = db.results.success + 1

\* C26: a download_track call adds exactly one row to downloads, created pending with
\* retry_count 0; that row is downloading when the executor is invoked; and when the call
\* returns, the row is completed if it returns success and failed if it returns failure
C26_OneRowPerAttempt ==
    [][/\ (pc = "dt_create" /\ pc' # pc) =>
              /\ Len(downloads') = Len(downloads) + 1
              /\ \A i \in DOMAIN downloads : downloads'[i] = downloads[i]
              /\ dt'.download_id = Len(downloads')
              /\ downloads'[Len(downloads')].track_id = dt.track.track_id
              /\ downloads'[Len(downloads')].status = PENDING
              /\ downloads'[Len(downloads')].retry_count = 0
       /\ (pc \in {"dt_mark", "dt_run", "dt_record"} /\ pc' # pc) => Len(downloads') = Len(downloads)
       /\ (pc = "dt_run" /\ pc' # pc) => downloads[dt.download_id].status = DOWNLOADING
       /\ (pc = "dt_record" /\ pc' # pc) =>
              downloads'[dt.download_id].status = IF DtReturnsSuccess THEN COMPLETED ELSE FAILED
      ]_vars

\* C27: in a retry pass, for each failed row of the list with retry_count < max_retries the
\* steps occur in this order: the row's retry_count is raised by exactly one, the row's
\* status is set to retrying, the pass sleeps retry_delay, the track is looked up in the
\* store, the executor is invoked; without a stored track the executor is not invoked
C27_RetryStepsInOrder ==
    [][LET row == rf.failed_downloads[rf.i]
       IN  /\ (pc = "rf_loop" /\ pc' # pc /\ rf'.active) =>
                  /\ row.retry_count < max_retries
                  /\ pc' = "rf_increment"
           /\ pc = "rf_increment" =>
                  /\ downloads'[row.id].retry_count = downloads[row.id].retry_count + 1
                  /\ pc' = "rf_mark"
           /\ pc = "rf_mark" =>
                  /\ downloads'[row.id].status = RETRYING
                  /\ downloads'[row.id].retry_count = downloads[row.id].retry_count
                  /\ pc' = "rf_sleep"
           /\ pc = "rf_sleep" =>
                  /\ log' = Append(log, SleepEvent(retry_delay))
                  /\ downloads' = downloads
                  /\ pc' = "rf_get_track"
           /\ pc = "rf_get_track" =>
                  /\ log' = log
                  /\ IF \E r \in tracks : r.track_id = row.track_id
                     THEN pc' = "dt_create" /\ dt'.track.track_id = row.track_id
                     ELSE pc' = "rf_loop" /\ rf'.i = rf.i + 1
           /\ (pc = "dt_run" /\ dt.caller = "retry") =>
                  /\ \E r \in tracks : r.track_id = row.track_id
                  /\ log' = Append(log, ExecEvent(row.track_id, dt'.result))
      ]_vars

\* C28: increment_retry_count(track_id), called directly or by a retry pass, raises the
\* retry_count of the track's download record by exactly one, leaves the other tracks'
\* rows as they are, and returns the retry_count now stored for the track, also when the
\* track has several rows
C28_IncrementReturnsStoredCount ==
    [][(pc = "rf_increment" \/ (pc = "idle" /\ ret'.op = "increment_retry_count")) =>
          LET t == IF pc = "rf_increment" THEN rf.failed_downloads[rf.i].track_id ELSE ret'.track_id
              returned == IF pc = "rf_increment" THEN new_retry_count(downloads', t) ELSE ret'.value
          IN  /\ DOMAIN downloads' = DOMAIN downloads
              /\ \A i \in DOMAIN downloads :
                    IF downloads[i].track_id = t
                    THEN /\ downloads'[i] = [downloads[i] EXCEPT !.retry_count = @ + 1]
                         /\ returned = downloads'[i].retry_count
                    ELSE downloads'[i] = downloads[i]
      ]_vars

\* C29: after every step, each Download row has a completed_at exactly when its status
\* is completed; a status write of pending, downloading, failed or retrying gives no row
\* a completed_at; and the completed_at of a completed row is never changed or cleared
C29_CompletedAtIffCompleted ==
    [][/\ \A i \in DOMAIN downloads' :
              (downloads'[i].completed_at # NoTime) <=> (downloads'[i].status = COMPLETED)
       /\ \A i \in DOMAIN downloads :
              /\ downloads[i].status = COMPLETED =>
                    downloads'[i].completed_at = downloads[i].completed_at
              /\ (downloads[i].completed_at = NoTime /\ downloads'[i].completed_at # NoTime) =>
                    /\ downloads'[i].status = COMPLETED
                    /\ pc = "idle" => (ret'.op = "update_download_status" /\ ret'.status = COMPLETED)
      ]_vars

\* a status other than completed has just been written for a track: its completed row has
\* kept its completed_at, and the row that took the status has none
C29_Witness ==
    /\ ret.op = "update_download_status"
    /\ ret.status \in {PENDING, DOWNLOADING, FAILED, RETRYING}
    /\ \E i, j \in DOMAIN downloads :
          /\ downloads[i].track_id = ret.track_id
          /\ downloads[i].status = COMPLETED
          /\ downloads[i].completed_at # NoTime
          /\ downloads[j].track_id = ret.track_id
          /\ downloads[j].status = ret.status
          /\ downloads[j].completed_at = NoTime

----------------------------------------------------------------------------
(* Runs of the pipeline over enabled and disabled playlists *)

\* enable_playlist(playlist_id, enabled) between two runs
EnablePlaylist(p, enabled) ==
    /\ pc = "idle"
    /\ ~run.active
    /\ get_playlist(playlists, p) # {}
    /\ playlists' = enable_playlist(playlists, p, enabled)
    /\ ret' = NoRet
    /\ log' = <<>>
    /\ last_ok' = NoCheck
    /\ UNCHANGED <<tracks, downloads, clock, max_retries, peer, pc, cp, dt, db, rf>>
    /\ UNCHANGED serviceVars

NextCheckAll ==
    \/ \E p \in PlaylistIds, enabled \in BOOLEAN : ~run.active /\ run.n = 0 /\ AddPlaylist(p, enabled)
    \/ \E p \in PlaylistIds, enabled \in BOOLEAN : EnablePlaylist(p, enabled)
    \/ \E order \in Orders(PlaylistIds) \cup Orders({"p1"}) \cup Orders({"p2"}) \cup Orders({}) : RunStart(order)
    \/ CaCheck
    \/ CpGetPlaylist
    \/ \E items \in PipelineLists : CpGetTracks(items)
    \/ CpGetTracksFails
    \/ CpDetect
    \/ CpUpdateTracks
    \/ CpUpdateLastChecked
    \/ CaCollect
    \/ CaReturn
    \/ CadNoNewTracks
    \/ CadDownloadBatch
    \/ DtCreate
    \/ DtMark
    \/ DtRun(ExitOk)
    \/ DtRecord
    \/ DbSleep
    \/ CadReturn

SpecCheckAll == Init /\ [][NextCheckAll]_vars

\* the playlists that are disabled
Disabled(tbl) == {r.playlist_id : r \in {x \in tbl : ~x.enabled}}

\* C30: check_all_playlists checks only enabled playlists: for a disabled playlist
\* check_playlist is not called and the data source is not queried, its row (last_checked)
\* and its stored tracks are the same after every step of the call, and the mapping that
\* is returned has no key for it
C30_DisabledPlaylistsAreLeftAlone ==
    [][\A p \in Disabled(playlists) :
          /\ (pc' \in {"cp_get_playlist", "cp_get_tracks"}) => cp'.playlist_id # p
          /\ (run.active /\ run.stage = "checking") =>
                /\ get_playlist(playlists', p) = get_playlist(playlists, p)
                /\ {t \in tracks' : t.playlist_id = p} = {t \in tracks : t.playlist_id = p}
          /\ ret'.op = "check_all_playlists" =>
                \A i \in DOMAIN ret'.value : ret'.value[i].playlist_id # p
      ]_vars

\* check_all_playlists has returned a mapping with a key for the enabled playlist and none
\* for the other, which is disabled and has tracks and a last_checked of an earlier run
C30_Witness ==
    /\ ret.op = "check_all_playlists"
    /\ \E p \in Disabled(playlists), q \in PlaylistIds \ Disabled(playlists) :
          /\ LastChecked(playlists, p) # NoTime
          /\ get_playlist_track_ids(tracks, p) # {}
          /\ \E i \in DOMAIN ret.value : ret.value[i].playlist_id = q
          /\ \A i \in DOMAIN ret.value : ret.value[i].playlist_id # p

\* the per-playlist lists of new tracks of the mapping, from the i-th on, one after another
RECURSIVE Concatenation(_, _)
Concatenation(results, i) ==
    IF i > Len(results) THEN <<>>
    ELSE results[i].new_tracks \o Concatenation(results, i + 1)

\* C31: within one run the phases are ordered: when the executor is invoked every enabled
\* playlist has been checked and the tracks handed to download_batch are the concatenation
\* of the per-playlist lists of new tracks; the download-complete notification is made
\* after the executor has run for every track of the batch; and a run that found no new
\* track ends without executor invocation and without that notification
C31_PhasesAreOrdered ==
    [][/\ (run.active /\ Len(log') > Len(log) /\ log'[Len(log')].kind = "exec") =>
              /\ {run.outcomes[i].playlist_id : i \in DOMAIN run.outcomes} = get_monitored_playlists(playlists)
              /\ db.tracks = Concatenation(run.results, 1)
       /\ (ret'.op = "notify_download_complete" /\ ret' # ret) =>
              /\ ret'.tracks = Concatenation(run.results, 1)
              /\ Cardinality(ExecEvents(log)) = Len(ret'.tracks)
              /\ ~db.active /\ ~dt.active
              /\ ret'.success + ret'.failed = Len(ret'.tracks)
       /\ (run.active /\ ~run'.active /\ Concatenation(run.results, 1) = <<>>) =>
              /\ ExecEvents(log') = {}
              /\ ret'.op # "notify_download_complete"
      ]_vars

\* the download-complete notification of a run in which two playlists had a new track each
C31_Witness ==
    /\ ret.op = "notify_download_complete"
    /\ Len(ret.tracks) = 2
    /\ Len(run.results) = 2
    /\ \A i \in DOMAIN run.results : Len(run.results[i].new_tracks) = 1
    /\ Cardinality(ExecEvents(log)) = 2

----------------------------------------------------------------------------
(* Two runs at once, continued: check_playlist in the thread of the other run.  Every
   store operation is one transaction (get_connection commits on exit), so the threads
   interleave between store operations *)

\* check_playlist(p) in the other thread, up to the list fetched from the data source
PeerCheckStart(p, items) ==
    /\ ~peer.active
    /\ p \in get_monitored_playlists(playlists)
    /\ clock < MaxClock
    /\ peer' = [active |-> TRUE, pc |-> "cp_detect", playlist_id |-> p,
                current_tracks |-> get_playlist_tracks(items), new_tracks |-> <<>>]
    /\ UNCHANGED <<playlists, tracks, downloads, clock, max_retries, pc, cp, dt, db, rf, log, ret, last_ok>>
    /\ UNCHANGED serviceVars

\* detect_new_tracks in the other thread: the stored ids are read now
PeerDetect ==
    /\ peer.active /\ peer.pc = "cp_detect"
    /\ peer' = [peer EXCEPT !.pc = "cp_update_tracks", !.new_tracks =
                  detect_new_tracks(get_playlist_track_ids(tracks, peer.playlist_id), peer.current_tracks)]
    /\ UNCHANGED <<playlists, tracks, downloads, clock, max_retries, pc, cp, dt, db, rf, log, ret, last_ok>>
    /\ UNCHANGED serviceVars

\* update_playlist_tracks in the other thread
PeerUpdateTracks ==
    /\ peer.active /\ peer.pc = "cp_update_tracks"
    /\ tracks' = update_playlist_tracks(tracks, peer.playlist_id, peer.current_tracks)
    /\ playlists' = SetTrackCount(playlists, peer.playlist_id, Len(peer.current_tracks))
    /\ peer' = [peer EXCEPT !.pc = "cp_update_last_checked"]
    /\ last_ok' = NoCheck
    /\ UNCHANGED <<downloads, clock, max_retries, pc, cp, dt, db, rf, log, ret>>
    /\ UNCHANGED serviceVars

\* update_playlist_last_checked in the other thread; its check_playlist returns new_tracks
PeerUpdateLastChecked ==
    /\ peer.active /\ peer.pc = "cp_update_last_checked"
    /\ clock' = clock + 1
    /\ playlists' = update_playlist_last_checked(playlists, peer.playlist_id, At(clock'))
    /\ peer' = [active |-> FALSE, op |-> "check_playlist", playlist_id |-> peer.playlist_id,
                value |-> peer.new_tracks]
    /\ last_ok' = NoCheck
    /\ UNCHANGED <<tracks, downloads, max_retries, pc, cp, dt, db, rf, log, ret>>
    /\ UNCHANGED serviceVars

\* r is what a check_playlist call has returned, and track t is in its list of new tracks
ReportedNew(r, t) ==
    /\ "op" \in DOMAIN r
    /\ r.op = "check_playlist"
    /\ "value" \in DOMAIN r
    /\ \E i \in DOMAIN r.value : r.value[i].track_id = t

\* each thread checks playlists and downloads the tracks its last check reported as new
NextTwoRuns ==
    \/ tracks = {} /\ ~peer.active /\ AddPlaylist("p1", TRUE)
    \/ \E p \in PlaylistIds : p \in get_monitored_playlists(playlists) /\ CheckPlaylistStart(p)
    \/ CpGetPlaylist
    \/ \E items \in CatalogLists : CpGetTracks(items)
    \/ CpDetect
    \/ CpUpdateTracks
    \/ CpUpdateLastChecked
    \/ \E t \in TrackIds : ReportedNew(ret, t) /\ Len(downloads) < MaxStoreRows
                              /\ DownloadTrackStart(Track(t, "a"))
    \/ DtCreate
    \/ DtMark
    \/ \E outcome \in {ExitOk, ExitFailed(15, 0)} : DtRun(outcome)
    \/ DtRecord
    \/ \E p \in PlaylistIds, items \in CatalogLists : PeerCheckStart(p, items)
    \/ PeerDetect
    \/ PeerUpdateTracks
    \/ PeerUpdateLastChecked
    \/ \E t \in TrackIds : ReportedNew(peer, t) /\ Len(downloads) < MaxStoreRows
                              /\ PeerStart(Track(t, "a"))
    \/ PeerCreate
    \/ PeerMark
    \/ \E outcome \in {ExitOk, ExitFailed(15, 0)} : PeerRun(outcome)
    \/ PeerRecord

SpecTwoRuns == Init /\ [][NextTwoRuns]_vars

\* C32: however the store operations of two runs interleave, after every step each
\* (playlist_id, track_id) pair is stored in at most one row of tracks and every row of
\* downloads has one of the five statuses, and a row that is completed stays completed
C32_InterleavedRunsKeepStoreSound ==
    [][/\ \A r1, r2 \in tracks' :
              (r1.playlist_id = r2.playlist_id /\ r1.track_id = r2.track_id) => r1 = r2
       /\ \A i \in DOMAIN downloads' :
              downloads'[i].status \in {"pending", "downloading", "completed", "failed", "retrying"}
       /\ \A i \in DOMAIN downloads :
              downloads[i].status = COMPLETED =>
                  (i \in DOMAIN downloads' /\ downloads'[i].status = COMPLETED)
      ]_vars

\* both runs found track t new and both download it: this thread's download_track has
\* returned success while the other thread's attempt for t is at its executor call
C32_Witness ==
    /\ ret.op = "download_track" /\ ret.value
    /\ peer.active /\ peer.pc = "dt_run"
    /\ peer.track.track_id = ret.track_id
    /\ Len(downloads) = 2
    /\ \A i \in DOMAIN downloads : downloads[i].track_id = ret.track_id /\ downloads[i].status = COMPLETED
    /\ \E r \in tracks : r.track_id = ret.track_id

----------------------------------------------------------------------------
(* Shutdown on a signal, and a signal repeated while the shutdown is in progress *)

\* shutdown without "if not self.running: return": running = False, scheduler.stop()
\* (nothing to stop any more), sys.exit(0) out of the handler
shutdownUnguarded(svc) == [svc EXCEPT !.running = FALSE, !.pc = "exited"]

\* TidalPlaylistService.shutdown, lines 263-278, called by the signal handler on top of
\* the main thread while it is in shutdown already
shutdown(svc) ==
    IF ~svc.running THEN svc
    ELSE [svc EXCEPT !.running = FALSE, !.pc = "exited"]

\* SIGINT / SIGTERM once more, while the first shutdown waits in PlaylistScheduler.stop
\* or is about to exit
SignalAgain ==
    /\ service.pc \in {"stop_wait", "stopped"}
    /\ service' = [shutdown(service) EXCEPT !.last_call = "signal_again"]
    /\ runs' = IF service'.pc = "exited"
               THEN [k \in RunKinds |-> IF runs[k] = "running" THEN "aborted" ELSE runs[k]]
               ELSE runs
    /\ UNCHANGED <<scheduler, tick>>
    /\ UNCHANGED <<workerVars, run>>

NextShutdown ==
    \/ \E use_cron \in BOOLEAN : SvcStartScheduler(use_cron)
    \/ Tick
    \/ \E i \in DOMAIN scheduler.jobs : ProcessJob(i)
    \/ \E k \in PoolKinds, body \in {"returned", "raised"} : RunEnds(k, body)
    \/ InitialCheckEnds
    \/ TriggerImmediateCheck
    \/ Signal
    \/ SignalAgain
    \/ StopReturns
    \/ Exit

SpecShutdown == Init /\ [][NextShutdown]_vars

\* C33: once shutdown has begun the running flag is false and no scheduled run starts;
\* when the process exits the scheduler is stopped and its stop has returned; and a signal
\* repeated during the shutdown changes nothing
C33_OrderlyShutdown ==
    [][/\ service'.pc \in {"stop_wait", "stopped", "exited"} =>
              /\ ~service'.running
              /\ scheduler'.state = "stopped"
       /\ service.pc \in {"stop_wait", "stopped", "exited"} =>
              \A k \in PoolKinds : runs'[k] = "running" => runs[k] = "running"
       /\ (service.pc # "exited" /\ service'.pc = "exited") =>
              /\ service.pc = "stopped"
              /\ service.stop.active /\ service.stop.returned
       /\ (service'.last_call = "signal_again" /\ service.pc # "exited") =>
              /\ service'.pc = service.pc
              /\ service'.running = service.running
              /\ service'.stop = service.stop
              /\ scheduler' = scheduler
              /\ runs' = runs
      ]_vars

\* a second signal has arrived while the shutdown waits for a run of the pool
C33_Witness ==
    /\ service.last_call = "signal_again"
    /\ service.pc = "stop_wait"
    /\ ~service.running
    /\ \E k \in PoolKinds : runs[k] = "running"

----------------------------------------------------------------------------
(* Retry passes, one after another: every track is downloaded once by a run, and
   from then on only retry_failed_downloads attempts it again *)

RowsOf(tbl, t) == {i \in DOMAIN tbl : tbl[i].track_id = t}

NextRetryPasses ==
    \/ \E t \in TrackIds : AddTrack("p1", Track(t, "a"))
    \/ \E t \in TrackIds : RowsOf(downloads, t) = {} /\ DownloadTrackStart(Track(t, "a"))
    \/ DtCreate
    \/ DtMark
    \/ \E outcome \in ExecOutcomes : DtRun(outcome)
    \/ DtRecord
    \/ RetryStart
    \/ RfLoop
    \/ RfIncrement
    \/ RfMark
    \/ RfSleep
    \/ RfGetTrack

SpecRetryPasses == Init /\ [][NextRetryPasses]_vars

\* C34: between calls, a track whose downloads have all failed has been attempted by
\* retries at most max_retries times: it has one row of the run that found it and at most
\* max_retries rows of retries (every attempt creates one row and invokes the executor once)
C34_RetriesAreBounded ==
    pc = "idle" =>
        \A t \in TrackIds :
            (\A i \in RowsOf(downloads, t) : downloads[i].status = FAILED)
                => Cardinality(RowsOf(downloads, t)) <= 1 + max_retries

\* the rows of the table that a step changes
ChangedRows == {i \in DOMAIN downloads : downloads'[i] # downloads[i]}

\* C35: the status writes of download_track change no row but the one the call created,
\* and increment_retry_count and the retrying mark of a retry change no row but the
\* failed row being retried: older rows of the same track and rows of other tracks stay
C35_StatusWriteChangesOneRow ==
    [][/\ pc \in {"dt_mark", "dt_record"} => ChangedRows \subseteq {dt.download_id}
       /\ pc \in {"rf_increment", "rf_mark"} => ChangedRows \subseteq {rf.failed_downloads[rf.i].id}
      ]_vars

\* C36: the list a successful check_playlist returns holds each track_id at most once,
\* also when the snapshot lists a track more than once
C36_NewTracksHaveNoDuplicates ==
    (ret.op = "check_playlist" /\ ret.outcome = "ok")
        => \A i, j \in DOMAIN ret.value :
              ret.value[i].track_id = ret.value[j].track_id => i = j

\* C37: no (playlist_id, track_id) pair is in the list of new tracks returned by two
\* check_playlist calls, also when the two calls interleave
C37_PairIsNewOnce ==
    \A t \in TrackIds :
        ~(/\ ReportedNew(ret, t)
          /\ ReportedNew(peer, t)
          /\ ret.playlist_id = peer.playlist_id)

\* C38: when check_playlist has raised, whatever the step that failed, the playlist's
\* stored track ids are those stored when the call began
C38_FailedCheckStoresNothing ==
    (ret.op = "check_playlist" /\ ret.outcome = "raise")
        => get_playlist_track_ids(tracks, ret.playlist_id) = ret.known

----------------------------------------------------------------------------
(* The service's scheduled runs, one after another without end, beside failed downloads *)

\* check_and_download is called by the scheduler once more: check_all_playlists finds no
\* enabled playlist and has nothing to check
ScheduledRunStart ==
    /\ ~run.active
    /\ pc = "idle"
    /\ get_monitored_playlists(playlists) = {}
    /\ run' = [run EXCEPT !.active = TRUE, !.stage = "checking", !.todo = <<>>,
                          !.enabled = {}, !.results = <<>>, !.outcomes = <<>>,
                          !.all_new_tracks = <<>>, !.store_error = FALSE, !.failed = FALSE]
    /\ ret' = NoRet
    /\ log' = <<>>
    /\ UNCHANGED <<playlists, tracks, downloads, clock, max_retries, peer, pc, cp, dt, db, rf, last_ok>>
    /\ UNCHANGED <<scheduler, runs, service, tick>>

NextServiceRuns ==
    \/ \E t \in TrackIds : ~run.active /\ AddTrack("p1", Track(t, "a"))
    \/ \E t \in TrackIds : ~run.active /\ RowsOf(downloads, t) = {} /\ DownloadTrackStart(Track(t, "a"))
    \/ DtCreate
    \/ DtMark
    \/ \E outcome \in ExecOutcomes : DtRun(outcome)
    \/ DtRecord
    \/ ScheduledRunStart
    \/ CaReturn
    \/ CadNoNewTracks

\* the scheduler keeps firing and every call goes on to its end
SpecServiceRuns == Init /\ [][NextServiceRuns]_vars /\ WF_vars(NextServiceRuns)

\* a failed row of track t is under the retry limit
RetryDue(t) ==
    /\ pc = "idle"
    /\ \E i \in RowsOf(downloads, t) :
          downloads[i].status = FAILED /\ downloads[i].retry_count < max_retries

\* a retry of track t has been made: retry_failed_downloads is at work, or it has raised
\* the count of a row of t
RetryMade(t) ==
    \/ rf.active
    \/ \E i \in RowsOf(downloads, t) : downloads[i].retry_count > 0 \/ downloads[i].status = RETRYING

\* C39: while scheduled runs go on, a failed download under the retry limit is retried
\* in the end
C39_FailedTrackIsRetried == \A t \in TrackIds : RetryDue(t) ~> RetryMade(t)

\* C40: the counts a retry pass returns satisfy retried = success + failed, and retried
\* is the number of failed rows that were under the retry limit when the pass read them
C40_RetryCountsAddUp ==
    ret.op = "retry_failed_downloads"
        => /\ ret.value.retried = ret.value.success + ret.value.failed
           /\ ret.value.retried = Cardinality(Eligible(ret.failed_downloads, max_retries))

====
